---- MODULE Spec2Model ----
(***************************************************************************)
(* Avendesora: the transactional add/edit protocol of command.py.          *)
(*                                                                         *)
(* A text is held the way Python's text.split('\n') holds it: a non-empty  *)
(* sequence of lines, the string being the lines joined by '\n'.           *)
(***************************************************************************)
EXTENDS Integers, Sequences, FiniteSets, TLC

\* ------------------------------------------------------------------ bounds
\* number of add/edit invocations run one after the other
MaxRuns == 2
\* number of accepted 'Try again?' answers within one invocation
MaxRetries == 2
\* the largest display_time setting, in seconds
MaxDisplayTime == 2
\* the invocations of add and edit started side by side
MaxInvocations == 4

\* ------------------------------------------------------------ text helpers
NoFile == <<>>

\* a + b on strings, in the split representation
Cat(a, b) == SubSeq(a, 1, Len(a) - 1) \o << a[Len(a)] \o b[1] >> \o Tail(b)

RECURSIVE LStripNl(_)
LStripNl(t) == IF Len(t) > 1 /\ t[1] = "" THEN LStripNl(Tail(t)) ELSE t

RECURSIVE RStripNl(_)
RStripNl(t) ==
    IF Len(t) > 1 /\ t[Len(t)] = "" THEN RStripNl(SubSeq(t, 1, Len(t) - 1)) ELSE t

\* text.strip('\n')
StripNl(t) == RStripNl(LStripNl(t))

\* not text.strip(): nothing but white space
IsBlank(t) == \A i \in 1..Len(t) : t[i] \in {"", "  "}

\* l.startswith('# Avendesora:')
IsInstruction(l) == l = "# Avendesora: fill in the fields"

\* '\n'.join([l for l in new.split('\n') if not l.startswith(...)])
JoinLines(ls) == IF ls = <<>> THEN <<"">> ELSE ls

NotInstruction(l) == ~IsInstruction(l)

RemoveInstructions(t) ==
    Cat(StripNl(JoinLines(SelectSeq(t, NotInstruction))), <<"", "">>)

\* re.sub("<<(.*?)>>", hide, new), line by line
HideLine(l) ==
    CASE l = "    pin = <<1234>>" -> "    pin = Hidden('MTIzNA==')"
      [] l = "    pin = <<_PIN_>>" -> "    pin = Hidden('X1BJTl8=')"
      [] OTHER -> l

Hide(t) == [i \in 1..Len(t) |-> HideLine(t[i])]

\* the candidate Add.run makes of what the user left in the temp file
PostProcess(t) == Hide(RemoveInstructions(t))

\* orig_accounts_code + '\n\n\n' + new
Combined(orig, new) == Cat(Cat(orig, <<"", "", "", "">>), new)

\* PythonFile.run() accepts the text: it compiles and executes
BadLines ==
    {"class Broken(Account:", "    pin = <<1234>>", "    pin = <<_PIN_>>"}

Parses(t) == \A i \in 1..Len(t) : t[i] \notin BadLines

\* ------------------------------------------------------------------- state
VARIABLES
    acct,       \* the accounts file's content
    backups,    \* the backup copies on disk: records [of, tag, text]
    tmps,       \* the temp files made by mktemp, one name per invocation
    pc,         \* position of the running command
    cmd,        \* "add", "edit" or "none"
    run,        \* number of invocations started so far
    retries,    \* accepted retries of the running invocation
    exc,        \* the exception in flight or last raised
    orig_accounts_code, \* Add.run's local of that name
    pre,        \* the accounts file's bytes when the backup was taken
    entered,    \* what the last editor session left behind
    out,        \* the messages shown to the user by this invocation
    outcome,    \* how the invocation ended
    seed        \* the text the latest editor session was opened on

evars == <<acct, backups, tmps, pc, cmd, run, retries, exc,
           orig_accounts_code, pre, entered, out, outcome, seed>>

\* the disclosure channels of writer.py: strings are sequences of characters
VARIABLES
    writer,        \* the operation in progress: tty, clipboard, keyboard, ...
    wpc,           \* where it stands
    result,        \* how it ended: returned, terminated or an exception
    secret,        \* the value of the account's secret field
    shadow,        \* the value the same field has in a second run
    display_time,  \* the display_time setting, in seconds
    field,         \* the field asked for
    tvalue,        \* the resolved value, dedented and stripped
    script,        \* the script run_script is interpreting
    terms,         \* the terms of the script still to interpret
    buffer,        \* run_script's out: the text still to type
    scrubbed,      \* run_script's transcript
    scrubbed2,     \* the transcript of the second run
    keys,          \* the key symbols handed to xdotool
    logged,        \* what log() was given
    logged2,       \* what log() was given in the second run
    msgs,          \* what warn(), error() and fatal() told the user
    screen,        \* the lines of the terminal, the cursor on the last one
    xsel,          \* the commands run on the clipboard
    elapsed,       \* the seconds slept in the wait in progress
    interrupted    \* a Ctrl-C arrived during a wait

wvars == <<writer, wpc, result, secret, shadow, display_time, field, tvalue,
           script, terms, buffer, scrubbed, scrubbed2, keys, logged, logged2,
           msgs, screen, xsel, elapsed, interrupted>>

\* the last call of get_writer(): its arguments and the writer it returned
VARIABLE selection

\* Command.execute and the run() it dispatches to
VARIABLES
    invoked,    \* the name and the arguments execute() was called with
    command_class, \* the command class find() came up with
    argv,       \* what run() hands to docopt: [command] + args
    cmdline,    \* what docopt made of it
    cpc,        \* where the command stands
    cresult     \* how the command ended

cvars == <<invoked, command_class, argv, cmdline, cpc, cresult>>

\* PasswordGenerator.__init__
VARIABLES
    accounts_files, \* the accounts_files setting
    opened,         \* the number of accounts files read so far
    defined,        \* Account.all_accounts(): the accounts read so far
    master          \* the master attribute of each account

gvars == <<accounts_files, opened, defined, master>>

\* Archive.run
VARIABLES
    previous_setting,  \* the previous_archive_file setting is given
    archive_file,      \* the bytes of the archive file
    previous_archive,  \* the bytes of the previous archive file
    archive0           \* the bytes of the archive when the command began

avars == <<previous_setting, archive_file, previous_archive, archive0>>

\* invocations of add and edit that run side by side on one accounts file
VARIABLES
    procs,  \* each invocation's locals: where it stands and what it read
    seen    \* what has happened to the accounts of invocations so far

pvars == <<procs, seen>>

\* what the add/edit protocol and the writers leave alone
elsewhere == <<cvars, gvars, avars, pvars>>

\* Add.run: the request and the recipients of the files
VARIABLES
    request,          \* the accounts file and the template Add.run settled on
    gpg_ids,          \* Add.run's local of that name
    declared,         \* the gpg_ids the accounts file defines when it is run
    recipients,       \* those the accounts file is encrypted for
    saved_recipients, \* those the backup copy is encrypted for
    tmp_recipients    \* those the temp file is encrypted for

xvars == <<request, gpg_ids, declared, recipients, saved_recipients,
           tmp_recipients>>

vars == <<evars, xvars, wvars, selection, elsewhere>>

\* get_writer() has not been called
Unselected ==
    [called |-> FALSE, display |-> TRUE, clipboard |-> FALSE,
     stdout |-> FALSE, chosen |-> "none"]

\* no disclosure in progress: nothing typed, logged, shown or copied
Quiet ==
    /\ writer = "none"
    /\ result = "none"
    /\ field = <<>>
    /\ tvalue = <<>>
    /\ script = <<>>
    /\ terms = <<>>
    /\ buffer = <<>>
    /\ scrubbed = <<>>
    /\ scrubbed2 = <<>>
    /\ keys = <<>>
    /\ logged = <<>>
    /\ logged2 = <<>>
    /\ msgs = <<>>
    /\ screen = <<<<>>>>
    /\ xsel = <<>>
    /\ elapsed = 0
    /\ interrupted = FALSE

\* add and edit use no writer
WriterOff ==
    /\ Quiet
    /\ wpc = "off"
    /\ secret = <<>>
    /\ shadow = <<>>
    /\ display_time = 0

AccountsPath == "personal.gpg"

InitialAccounts ==
    { <<"class Bank(Account):", "    pin = Hidden('OTk5OQ==')", "">>,
      <<"class Bank(Account):", "", "">> }

\* templates[template_name], after dedent(...).strip() + '\n'
template ==
    <<"# Avendesora: fill in the fields", "class _NAME_(Account):",
      "    pin = <<_PIN_>>", "">>

\* what a user may leave in the temp file when the editor session ends
AddEdits ==
    { template,
      <<"">>,
      <<"  ", "">>,
      <<"# Avendesora: fill in the fields", "class Shop(Account):",
        "    pin = <<1234>>", "">>,
      <<"", "class Shop(Account):", "", "">>,
      <<"# Avendesora: fill in the fields", "class Broken(Account:", "">> }

\* what a user may leave in the accounts file when the editor session ends
EditEdits ==
    { acct, pre,
      Cat(StripNl(pre), <<"", "    url = 'bank.com'", "">>),
      Cat(StripNl(pre), <<"", "class Broken(Account:", "">>) }

\* no command is dispatched, no accounts file is read, no archive is kept
Absent == "absent"

Unset == "unset"

None == "None"

NoCmdline ==
    [ok |-> FALSE, word |-> None, clipboard |-> FALSE, stdout |-> FALSE,
     seed |-> FALSE, verbose |-> FALSE, title |-> None, account |-> None,
     field |-> None]

CommandOff ==
    /\ invoked = [name |-> None, args |-> <<>>]
    /\ command_class = None
    /\ argv = <<>>
    /\ cmdline = NoCmdline
    /\ cpc = "off"
    /\ cresult = "none"
    /\ accounts_files = <<"personal.gpg", "public.gpg", "work.gpg">>
    /\ opened = 0
    /\ defined = {}
    /\ master = <<>>
    /\ previous_setting = FALSE
    /\ archive_file = Absent
    /\ previous_archive = Absent
    /\ archive0 = Absent

\* get_setting('gpg_ids')
SettingIds == <<"carol">>

\* orig_accounts.get('gpg_ids') of a file that defines no gpg_ids
NoIds == <<>>

\* GnuPG.save(text, gpg_ids): those the text is encrypted for; with no
\* recipients given the file is written unencrypted
Recipients(ids) == {ids[i] : i \in DOMAIN ids}

NoRequest == [accepted |-> FALSE, filename |-> None, template_name |-> None]

\* no request is made; the accounts file is encrypted for those it names
IdsOff ==
    /\ request = NoRequest
    /\ gpg_ids = NoIds
    /\ recipients = Recipients(declared)
    /\ saved_recipients = {}
    /\ tmp_recipients = {}

\* the terminals add and edit are invoked from: add from the first, add or
\* edit from the second
Procs == {1, 2}

\* no add or edit has run yet
EditInit ==
    /\ procs = [p \in Procs |->
                    [kind |-> None, pc |-> "idle",
                     orig_accounts_code |-> NoFile, buffer |-> NoFile,
                     mark |-> None, outcome |-> "none"]]
    /\ seen = {}
    /\ acct \in InitialAccounts
    /\ backups = {}
    /\ tmps = [n \in 1..(MaxRuns + 1) |-> NoFile]
    /\ pc = "idle"
    /\ cmd = "none"
    /\ run = 0
    /\ retries = 0
    /\ exc = "none"
    /\ orig_accounts_code = NoFile
    /\ pre = NoFile
    /\ entered = NoFile
    /\ out = <<>>
    /\ outcome = "none"
    /\ seed = NoFile

Init ==
    /\ WriterOff
    /\ EditInit
    /\ selection = Unselected
    /\ CommandOff
    /\ declared \in {NoIds, <<"alice", "bob">>}
    /\ IdsOff

\* ------------------------------------------------------ the storage object
\* GnuPG.backup(extension): copy the file to the name with the extension
BackupCopies(path) == {b \in backups : b.of = path}

backup(path, extension, text) ==
    {b \in backups : ~(b.of = path /\ b.tag = extension)}
        \cup {[of |-> path, tag |-> extension, text |-> text]}

SavedText(path) ==
    (CHOOSE b \in backups : b.of = path /\ b.tag = ".saved").text

HasSaved(path) == \E b \in backups : b.of = path /\ b.tag = ".saved"

\* GnuPG.restore(): copy the backup over the file; with no backup to copy
\* the file is left as it is
restore(path) == IF HasSaved(path) THEN SavedText(path) ELSE acct

\* ---------------------------------------------------------------- Add.run
\* the command ends with an exception that no handler of run() catches
Raise(e) ==
    /\ exc' = e
    /\ pc' = "done"
    /\ outcome' = "error"

AddBegin ==
    /\ pc = "idle"
    /\ run < MaxRuns
    /\ run' = run + 1
    /\ cmd' = "add"
    /\ \/ /\ Parses(acct)
          /\ orig_accounts_code' = StripNl(acct)
          /\ pc' = "add_backup"
          /\ UNCHANGED <<exc, outcome>>
       \/ /\ ~Parses(acct)
          /\ Raise("PasswordError")
          /\ UNCHANGED orig_accounts_code
       \/ /\ Raise("OSError")
          /\ UNCHANGED orig_accounts_code
    /\ UNCHANGED <<acct, backups, tmps, retries, pre, entered, out>>

\* AddBackup with the backup forgotten
AddBackup_NoBackup ==
    /\ pc = "add_backup"
    /\ pc' = "add_tmpsave"
    /\ UNCHANGED <<acct, backups, tmps, cmd, run, retries, exc,
                   orig_accounts_code, pre, entered, out, outcome>>

AddBackup ==
    /\ pc = "add_backup"
    /\ \/ /\ backups' = backup(AccountsPath, ".saved", acct)
          /\ pre' = acct
          /\ pc' = "add_tmpsave"
          /\ UNCHANGED <<exc, outcome>>
       \/ /\ Raise("OSError")
          /\ UNCHANGED <<backups, pre>>
    /\ UNCHANGED <<acct, tmps, cmd, run, retries, orig_accounts_code,
                   entered, out>>

AddSaveTemplate ==
    /\ pc = "add_tmpsave"
    /\ \/ /\ tmps' = [tmps EXCEPT ![run] = template]
          /\ pc' = "add_editor"
          /\ UNCHANGED <<exc, outcome>>
       \/ /\ Raise("OSError")
          /\ UNCHANGED tmps
    /\ UNCHANGED <<acct, backups, cmd, run, retries, orig_accounts_code,
                   pre, entered, out>>

AddEditor ==
    /\ pc = "add_editor"
    /\ \E t \in AddEdits :
          /\ tmps' = [tmps EXCEPT ![run] = t]
          /\ entered' = t
    /\ \/ /\ pc' = "add_check"
          /\ exc' = "none"
       \/ /\ pc' = "add_except"
          /\ exc' = "OSError"
    /\ UNCHANGED <<acct, backups, cmd, run, retries, orig_accounts_code,
                   pre, out, outcome>>

AddCheck ==
    /\ pc = "add_check"
    /\ \/ /\ IsBlank(tmps[run]) \/ tmps[run] = template
          /\ out' = Append(out, "Unchanged, and so ignored.")
          /\ pc' = "done"
          /\ outcome' = "unchanged"
          /\ UNCHANGED exc
       \/ /\ ~(IsBlank(tmps[run]) \/ tmps[run] = template)
          /\ pc' = "add_save"
          /\ UNCHANGED <<out, outcome, exc>>
       \/ /\ pc' = "add_except"
          /\ exc' = "OSError"
          /\ UNCHANGED <<out, outcome>>
    /\ UNCHANGED <<acct, backups, tmps, cmd, run, retries,
                   orig_accounts_code, pre, entered>>

\* AddSave adding the candidate to what the file holds by now
AddSave_Accumulates ==
    /\ pc = "add_save"
    /\ \/ /\ acct' = Combined(StripNl(acct), PostProcess(tmps[run]))
          /\ pc' = "add_run"
          /\ UNCHANGED exc
       \/ /\ pc' = "add_except"
          /\ exc' = "OSError"
          /\ UNCHANGED acct
    /\ UNCHANGED <<backups, tmps, cmd, run, retries, orig_accounts_code,
                   pre, entered, out, outcome>>

AddSave ==
    /\ pc = "add_save"
    /\ \/ /\ acct' = Combined(orig_accounts_code, PostProcess(tmps[run]))
          /\ pc' = "add_run"
          /\ UNCHANGED exc
       \/ /\ pc' = "add_except"
          /\ exc' = "OSError"
          /\ UNCHANGED acct
    /\ UNCHANGED <<backups, tmps, cmd, run, retries, orig_accounts_code,
                   pre, entered, out, outcome>>

\* AddRun leaving the loop whether or not the file parses
AddRun_BreakAlways ==
    /\ pc = "add_run"
    /\ pc' = "add_remove"
    /\ UNCHANGED <<acct, backups, tmps, cmd, run, retries, exc, out,
                   orig_accounts_code, pre, entered, outcome>>

\* AddRun with the inner handler catching OSError as well
AddRun_CatchAll ==
    /\ pc = "add_run"
    /\ \/ /\ Parses(acct)
          /\ pc' = "add_remove"
          /\ UNCHANGED <<exc, out>>
       \/ /\ ~Parses(acct)
          /\ exc' = "PasswordError"
          /\ out' = Append(out, "error")
          /\ pc' = "add_query"
       \/ /\ exc' = "OSError"
          /\ out' = Append(out, "error")
          /\ pc' = "add_query"
    /\ UNCHANGED <<acct, backups, tmps, cmd, run, retries,
                   orig_accounts_code, pre, entered, outcome>>

AddRun ==
    /\ pc = "add_run"
    /\ \/ /\ Parses(acct)
          /\ pc' = "add_remove"
          /\ UNCHANGED <<exc, out>>
       \/ /\ ~Parses(acct)
          /\ exc' = "PasswordError"
          /\ out' = Append(out, "error")
          /\ pc' = "add_query"
       \/ /\ exc' = "OSError"
          /\ pc' = "add_except"
          /\ UNCHANGED out
    /\ UNCHANGED <<acct, backups, tmps, cmd, run, retries,
                   orig_accounts_code, pre, entered, outcome>>

\* AddQuery writing the template back into the temp file on a retry
AddQuery_ResetsTemplate ==
    /\ pc = "add_query"
    /\ out' = Append(out, "Try again?")
    /\ \/ /\ retries < MaxRetries
          /\ retries' = retries + 1
          /\ tmps' = [tmps EXCEPT ![run] = template]
          /\ pc' = "add_editor"
          /\ exc' = "none"
       \/ /\ pc' = "add_except"
          /\ exc' = "Giving up"
          /\ UNCHANGED <<retries, tmps>>
    /\ UNCHANGED <<acct, backups, cmd, run, orig_accounts_code,
                   pre, entered, outcome>>

\* AddQuery giving up by itself after the first retry
AddQuery_Capped ==
    /\ pc = "add_query"
    /\ out' = Append(out, "Try again?")
    /\ \/ /\ retries < 1
          /\ retries' = retries + 1
          /\ pc' = "add_editor"
          /\ exc' = "none"
       \/ /\ pc' = "add_except"
          /\ exc' = "Giving up"
          /\ UNCHANGED retries
    /\ UNCHANGED <<acct, backups, tmps, cmd, run, orig_accounts_code,
                   pre, entered, outcome>>

AddQuery ==
    /\ pc = "add_query"
    /\ out' = Append(out, "Try again?")
    /\ \/ /\ retries < MaxRetries
          /\ retries' = retries + 1
          /\ pc' = "add_editor"
          /\ exc' = "none"
       \/ /\ pc' = "add_except"
          /\ exc' = "Giving up"
          /\ UNCHANGED retries
    /\ UNCHANGED <<acct, backups, tmps, cmd, run, orig_accounts_code,
                   pre, entered, outcome>>

\* AddExcept with the restore forgotten
AddExcept_NoRestore ==
    /\ pc = "add_except"
    /\ out' = out \o <<"error", "What you entered can be found in tmp">>
    /\ pc' = "done"
    /\ outcome' = "rolledback"
    /\ UNCHANGED <<acct, backups, tmps, cmd, run, retries, exc,
                   orig_accounts_code, pre, entered>>

AddExcept ==
    /\ pc = "add_except"
    /\ acct' = restore(AccountsPath)
    /\ out' = out \o <<"error", "What you entered can be found in tmp">>
    /\ pc' = "done"
    /\ outcome' = "rolledback"
    /\ UNCHANGED <<backups, tmps, cmd, run, retries, exc,
                   orig_accounts_code, pre, entered>>

\* AddRemove discarding the backup together with the temp file
AddRemove_DiscardBackup ==
    /\ pc = "add_remove"
    /\ tmps' = [tmps EXCEPT ![run] = NoFile]
    /\ backups' = {b \in backups : b.of # AccountsPath}
    /\ pc' = "done"
    /\ outcome' = "committed"
    /\ UNCHANGED <<acct, cmd, run, retries, exc,
                   orig_accounts_code, pre, entered, out>>

AddRemove ==
    /\ pc = "add_remove"
    /\ tmps' = [tmps EXCEPT ![run] = NoFile]
    /\ pc' = "done"
    /\ outcome' = "committed"
    /\ UNCHANGED <<acct, backups, cmd, run, retries, exc,
                   orig_accounts_code, pre, entered, out>>

\* --------------------------------------------------------------- Edit.run
EditBegin ==
    /\ pc = "idle"
    /\ run < MaxRuns
    /\ run' = run + 1
    /\ cmd' = "edit"
    /\ \/ /\ Parses(acct)
          /\ pc' = "edit_backup"
          /\ UNCHANGED <<exc, outcome>>
       \/ /\ ~Parses(acct)
          /\ Raise("Error")
       \/ Raise("Error")
    /\ UNCHANGED <<acct, backups, tmps, retries, orig_accounts_code, pre,
                   entered, out>>

EditBackup ==
    /\ pc = "edit_backup"
    /\ \/ /\ backups' = backup(AccountsPath, ".saved", acct)
          /\ pre' = acct
          /\ pc' = "edit_editor"
          /\ UNCHANGED <<exc, outcome>>
       \/ /\ Raise("OSError")
          /\ UNCHANGED <<backups, pre>>
    /\ UNCHANGED <<acct, tmps, cmd, run, retries, orig_accounts_code,
                   entered, out>>

EditEditor ==
    /\ pc = "edit_editor"
    /\ \E t \in EditEdits :
          /\ acct' = t
          /\ entered' = t
    /\ \/ /\ pc' = "edit_run"
          /\ exc' = "none"
       \/ /\ pc' = "edit_except"
          /\ exc' = "OSError"
    /\ UNCHANGED <<backups, tmps, cmd, run, retries, orig_accounts_code,
                   pre, out, outcome>>

\* EditRun discarding the backup once the file is found valid
EditRun_DiscardBackup ==
    /\ pc = "edit_run"
    /\ \/ /\ Parses(acct)
          /\ pc' = "done"
          /\ outcome' = "committed"
          /\ backups' = {b \in backups : b.of # AccountsPath}
          /\ UNCHANGED <<exc, out>>
       \/ /\ ~Parses(acct)
          /\ exc' = "PasswordError"
          /\ out' = Append(out, "error")
          /\ pc' = "edit_query"
          /\ UNCHANGED <<outcome, backups>>
       \/ /\ exc' = "OSError"
          /\ pc' = "edit_except"
          /\ UNCHANGED <<out, outcome, backups>>
    /\ UNCHANGED <<acct, tmps, cmd, run, retries,
                   orig_accounts_code, pre, entered>>

EditRun ==
    /\ pc = "edit_run"
    /\ \/ /\ Parses(acct)
          /\ pc' = "done"
          /\ outcome' = "committed"
          /\ UNCHANGED <<exc, out>>
       \/ /\ ~Parses(acct)
          /\ exc' = "PasswordError"
          /\ out' = Append(out, "error")
          /\ pc' = "edit_query"
          /\ UNCHANGED outcome
       \/ /\ exc' = "OSError"
          /\ pc' = "edit_except"
          /\ UNCHANGED <<out, outcome>>
    /\ UNCHANGED <<acct, backups, tmps, cmd, run, retries,
                   orig_accounts_code, pre, entered>>

EditQuery ==
    /\ pc = "edit_query"
    /\ out' = Append(out, "Try again?")
    /\ \/ /\ retries < MaxRetries
          /\ retries' = retries + 1
          /\ pc' = "edit_editor"
          /\ exc' = "none"
       \/ /\ pc' = "edit_except"
          /\ exc' = "Giving up"
          /\ UNCHANGED retries
    /\ UNCHANGED <<acct, backups, tmps, cmd, run, orig_accounts_code,
                   pre, entered, outcome>>

EditExcept ==
    /\ pc = "edit_except"
    /\ acct' = restore(AccountsPath)
    /\ pc' = "done"
    /\ outcome' = "rolledback"
    /\ UNCHANGED <<backups, tmps, cmd, run, retries, exc,
                   orig_accounts_code, pre, entered, out>>

\* ---------------------------------------------------------------- Ctrl-C
\* KeyboardInterrupt is neither a PasswordError nor an OSError: no handler
\* of Add.run or Edit.run catches it, but for the bare except around
\* tmpfile.remove(), which swallows it.
Interrupt ==
    /\ pc \notin {"idle", "done"}
    /\ pc' = "done"
    /\ IF pc = "add_remove"
       THEN /\ outcome' = "committed"
            /\ UNCHANGED exc
       ELSE /\ outcome' = "interrupted"
            /\ exc' = "KeyboardInterrupt"
    /\ UNCHANGED <<acct, backups, tmps, cmd, run, retries,
                   orig_accounts_code, pre, entered, out>>

\* the process exits; the next invocation starts from the files left on disk
Exit ==
    /\ pc = "done"
    /\ run < MaxRuns
    /\ pc' = "idle"
    /\ cmd' = "none"
    /\ retries' = 0
    /\ exc' = "none"
    /\ orig_accounts_code' = NoFile
    /\ pre' = NoFile
    /\ entered' = NoFile
    /\ out' = <<>>
    /\ outcome' = "none"
    /\ UNCHANGED <<acct, backups, tmps, run>>

\* ------------------------------------------------- strings of characters
Whitespace == {" ", "\t", "\n", "\r"}

Lower ==
    <<"a", "b", "c", "d", "e", "f", "g", "h", "i", "j", "k", "l", "m",
      "n", "o", "p", "q", "r", "s", "t", "u", "v", "w", "x", "y", "z">>

Upper ==
    <<"A", "B", "C", "D", "E", "F", "G", "H", "I", "J", "K", "L", "M",
      "N", "O", "P", "Q", "R", "S", "T", "U", "V", "W", "X", "Y", "Z">>

Digits == {"0", "1", "2", "3", "4", "5", "6", "7", "8", "9"}

\* string.ascii_letters
ascii_letters == {Lower[i] : i \in 1..26} \cup {Upper[i] : i \in 1..26}

\* the characters \w of a regular expression matches
WordChars == ascii_letters \cup Digits \cup {"_"}

\* str.upper() and str.lower(), character by character
UpperChar(c) ==
    IF \E i \in 1..26 : Lower[i] = c
    THEN Upper[CHOOSE i \in 1..26 : Lower[i] = c] ELSE c

LowerChar(c) ==
    IF \E i \in 1..26 : Upper[i] = c
    THEN Lower[CHOOSE i \in 1..26 : Upper[i] = c] ELSE c

ToUpper(s) == [i \in DOMAIN s |-> UpperChar(s[i])]

ToLower(s) == [i \in DOMAIN s |-> LowerChar(s[i])]

HasNewline(s) == \E i \in DOMAIN s : s[i] = "\n"

\* str.strip(chars)
StripChars(s, chars) ==
    IF \A i \in DOMAIN s : s[i] \in chars THEN <<>>
    ELSE LET a == CHOOSE i \in DOMAIN s :
                      s[i] \notin chars /\ \A j \in 1..(i - 1) : s[j] \in chars
             b == CHOOSE i \in DOMAIN s :
                      s[i] \notin chars
                      /\ \A j \in (i + 1)..Len(s) : s[j] \in chars
         IN  SubSeq(s, a, b)

\* str.strip()
Strip(s) == StripChars(s, Whitespace)

RECURSIVE SplitNl(_)
\* str.split('\n')
SplitNl(s) ==
    IF ~HasNewline(s) THEN <<s>>
    ELSE LET i == CHOOSE k \in DOMAIN s :
                      s[k] = "\n" /\ \A j \in 1..(k - 1) : s[j] # "\n"
         IN  <<SubSeq(s, 1, i - 1)>> \o SplitNl(SubSeq(s, i + 1, Len(s)))

RECURSIVE JoinNl(_)
\* '\n'.join(lines)
JoinNl(ls) ==
    IF Len(ls) = 1 THEN ls[1] ELSE ls[1] \o <<"\n">> \o JoinNl(Tail(ls))

RECURSIVE Join(_)
\* ''.join(parts)
Join(parts) == IF parts = <<>> THEN <<>> ELSE Head(parts) \o Join(Tail(parts))

\* a line of blanks and tabs only
WsOnly(l) == \A i \in DOMAIN l : l[i] \in {" ", "\t"}

\* the length of the blanks and tabs a line starts with
LeadLen(l) ==
    CHOOSE n \in 0..Len(l) :
        /\ \A i \in 1..n : l[i] \in {" ", "\t"}
        /\ n = Len(l) \/ l[n + 1] \notin {" ", "\t"}

\* the margin textwrap.dedent() removes: the longest run of blanks and tabs
\* that every line with something on it starts with
MarginLen(ls) ==
    LET C == {i \in DOMAIN ls : ~WsOnly(ls[i])}
        Common(n) ==
            /\ \A i \in C : n <= LeadLen(ls[i])
            /\ \A i \in C, j \in C, k \in 1..n : ls[i][k] = ls[j][k]
        Most == IF C = {} THEN 0 ELSE LeadLen(ls[CHOOSE i \in C : TRUE])
    IN  IF C = {} THEN 0
        ELSE CHOOSE n \in 0..Most :
                 Common(n) /\ \A m \in (n + 1)..Most : ~Common(m)

\* textwrap.dedent()
dedent(s) ==
    LET ls == SplitNl(s)
        m == MarginLen(ls)
    IN  JoinNl([i \in DOMAIN ls |->
                  IF WsOnly(ls[i]) THEN <<>>
                  ELSE SubSeq(ls[i], m + 1, Len(ls[i]))])

RECURSIVE IndentFrom(_, _, _)
\* the prefix goes before the first character of every line that holds
\* more than whitespace; lines are those of str.splitlines()
IndentFrom(s, i, prefix) ==
    IF i > Len(s) THEN <<>>
    ELSE LET starts == \/ i = 1
                       \/ s[i - 1] = "\n"
                       \/ s[i - 1] = "\r" /\ s[i] # "\n"
             e == CHOOSE k \in i..Len(s) :
                      /\ k = Len(s) \/ s[k] \in {"\n", "\r"}
                      /\ \A j \in i..(k - 1) : s[j] \notin {"\n", "\r"}
             filled == \E j \in i..e : s[j] \notin Whitespace
         IN  (IF starts /\ filled THEN prefix ELSE <<>>)
             \o <<s[i]>> \o IndentFrom(s, i + 1, prefix)

\* textwrap.indent()
indent(s, prefix) == IndentFrom(s, 1, prefix)

\* does the line hold the piece, character for character
Holds(l, piece) ==
    \E k \in 1..(Len(l) - Len(piece) + 1) :
        SubSeq(l, k, k + Len(piece) - 1) = piece

\* ------------------------------------------------------------ the account
\* the names of the account's fields
pin == <<"p", "i", "n">>

id == <<"i", "d">>

note == <<"n", "o", "t", "e">>

nope == <<"n", "o", "p", "e">>

\* a field of an array, named with its key
answer == <<"q", ".", "0">>

\* the values a secret may have: plain, of two lines, with blanks around
\* it and a character no key symbol stands for
Secrets ==
    { <<"s", "3">>,
      <<"a", "\n", "b">>,
      <<" ", "k", "\r", "z", " ">> }

\* the account: one secret and three public fields
Fields(s) ==
    (pin :> [secret |-> TRUE, value |-> s])
    @@ (id :> [secret |-> FALSE, value |-> <<"m", "e">>])
    @@ (note :> [secret |-> FALSE, value |-> <<" ", "u", "\n", " ", "v">>])
    @@ (answer :> [secret |-> FALSE, value |-> <<"n", "o">>])

has_field(name) == name \in DOMAIN Fields(secret)

is_secret(name) == has_field(name) /\ Fields(secret)[name].secret

\* account.get_field() as a string; only an existing field has one
get_field(s, name) == Fields(s)[name].value

\* the indent setting
IndentSetting == <<" ", " ">>

\* --------------------------------------------------- writer.py: the sinks
\* the table of key symbols, but for the grave accent, which no string of
\* this module can hold and no value here contains
KEYSYMS ==
    ("!" :> "exclam") @@ ("\"" :> "quotedbl") @@ ("#" :> "numbersign")
    @@ ("$" :> "dollar") @@ ("%" :> "percent") @@ ("&" :> "ampersand")
    @@ ("'" :> "apostrophe") @@ ("(" :> "parenleft") @@ (")" :> "parenright")
    @@ ("*" :> "asterisk") @@ ("+" :> "plus") @@ ("," :> "comma")
    @@ ("-" :> "minus") @@ ("." :> "period") @@ ("/" :> "slash")
    @@ ("0" :> "zero") @@ ("1" :> "one") @@ ("2" :> "two")
    @@ ("3" :> "three") @@ ("4" :> "four") @@ ("5" :> "five")
    @@ ("6" :> "six") @@ ("7" :> "seven") @@ ("8" :> "eight")
    @@ ("9" :> "nine") @@ (" " :> "space") @@ (":" :> "colon")
    @@ (";" :> "semicolon") @@ ("<" :> "less") @@ ("=" :> "equal")
    @@ (">" :> "greater") @@ ("?" :> "question") @@ ("@" :> "at")
    @@ ("[" :> "bracketleft") @@ ("\\" :> "backslash")
    @@ ("]" :> "bracketright") @@ ("^" :> "asciicircum")
    @@ ("_" :> "underscore") @@ ("{" :> "braceleft")
    @@ ("|" :> "bar") @@ ("}" :> "braceright") @@ ("~" :> "asciitilde")
    @@ ("\n" :> "Return") @@ ("\t" :> "Tab")

\* an autotype() that knows the letters only
Keysym_LettersOnly(c) == IF c \in ascii_letters THEN c ELSE ""

\* the key symbol autotype() finds for a character, "" when it finds none
Keysym(c) ==
    IF c \in ascii_letters THEN c
    ELSE IF c \in DOMAIN KEYSYMS THEN KEYSYMS[c] ELSE ""

RECURSIVE Keysyms(_)
\* the key symbols autotype() hands to xdotool for a text
Keysyms(s) ==
    IF s = <<>> THEN <<>>
    ELSE (IF Keysym(Head(s)) = "" THEN <<>> ELSE <<Keysym(Head(s))>>)
         \o Keysyms(Tail(s))

\* an autotype() that reports nothing
KeysymErrors_None(s) == <<>>

RECURSIVE KeysymErrors(_)
\* the errors autotype() reports for a text
KeysymErrors(s) ==
    IF s = <<>> THEN <<>>
    ELSE (IF Keysym(Head(s)) = ""
          THEN <<<<"error", "cannot map to keysym, unknown", Head(s)>>>>
          ELSE <<>>)
         \o KeysymErrors(Tail(s))

\* cursor.write(): the text goes where the cursor is, a line break in it
\* moves the cursor to a new line
cursor_write(scr, s) ==
    LET ls == SplitNl(s)
        n == Len(scr)
    IN  SubSeq(scr, 1, n - 1) \o <<scr[n] \o ls[1]>> \o Tail(ls)

\* cursor.clear(): the line the cursor is on is wiped
cursor_clear(scr) == SubSeq(scr, 1, Len(scr) - 1) \o <<<<>>>>

\* output(): the text and a line break
Output(scr, s) == cursor_write(scr, s \o <<"\n">>)

\* what get_field() raising Error makes terminate() tell the user
NotFound(name) == <<"error", "not found", name>>

\* a TTY_Writer that never warns
NoWarnings(name, secret_field, value) == <<>>

\* the warning of TTY_Writer for a secret of several lines
Warnings(name, secret_field, value) ==
    IF HasNewline(value) /\ secret_field
    THEN <<<<"warning",
             "secret contains newlines, will not be fully concealed.", name>>>>
    ELSE <<>>

\* the line TTY_Writer logs in a run where the secret is s
TTYLog(s, name) == <<"Writing to TTY:", " ">> \o name

\* the line ClipboardWriter logs in a run where the secret is s
ClipLog(s, name) == <<"Writing to clipboard.">>

\* a transcript that takes the value whatever the field
Scrub_Value(ref, secret_field, value) == value

\* what run_script puts in the transcript for a field reference
Scrub(ref, secret_field, value) ==
    IF secret_field THEN <<"<">> \o ref \o <<">">> ELSE value

\* the line run_script logs
KbLog(transcript) == <<"Autotyping \"">> \o Join(transcript) \o <<"\".">>

\* -------------------------------------------------- writer.py: the scripts
\* where a match of the regex (a brace, word characters, a brace) that
\* starts at i ends, 0 when none starts there
MatchEnd(s, i) ==
    IF s[i] # "{" THEN 0
    ELSE LET k == CHOOSE n \in i..Len(s) :
                      /\ \A j \in (i + 1)..n : s[j] \in WordChars
                      /\ n = Len(s) \/ s[n + 1] \notin WordChars
         IN  IF k > i /\ k < Len(s) /\ s[k + 1] = "}" THEN k + 1 ELSE 0

RECURSIVE SplitFrom(_, _, _)
SplitFrom(s, i, cur) ==
    IF i > Len(s) THEN <<cur>>
    ELSE IF MatchEnd(s, i) # 0
         THEN <<cur, SubSeq(s, i, MatchEnd(s, i))>>
              \o SplitFrom(s, MatchEnd(s, i) + 1, <<>>)
         ELSE SplitFrom(s, i + 1, Append(cur, s[i]))

\* regex.split(script): the texts between the matches and the matches
RegexSplit(s) == SplitFrom(s, 1, <<>>)

StartsWith(s, prefix) ==
    Len(s) >= Len(prefix) /\ SubSeq(s, 1, Len(prefix)) = prefix

\* len(s.split())
WordCount(s) ==
    Cardinality({i \in DOMAIN s :
                   s[i] \notin Whitespace /\ (i = 1 \/ s[i - 1] \in Whitespace)})

\* the script run_script makes up when it is given none
DefaultScript == <<"{">> \o pin \o <<"}">> \o <<"{", "r", "e", "t", "u", "r", "n", "}">>

\* the scripts run_script is given
Scripts ==
    { <<"{", "i", "d", "}", "{", "t", "a", "b", "}", "{", "p", "i", "n",
        "}", "{", "r", "e", "t", "u", "r", "n", "}">>,
      <<"{", "i", "d", "}", "{", "s", "l", "e", "e", "p", " ", "1", "}",
        "{", "p", "i", "n", "}">>,
      <<"{", "s", "l", "e", "e", "p", " ", "1", " ", "2", "}">>,
      <<"h", "i", "{", "n", "o", "p", "e", "}">>,
      <<"a", ".", "b", " ", "{", "N", "o", "t", "e", "}">>,
      <<"{", "t", "a", "b", "}", "{", "r", "e", "t", "u", "r", "n", "}">>,
      <<"{", "R", "e", "t", "u", "r", "n", "}", "{", "t", "a", "b", "}",
        "{", "t", "a", "b", "}">>,
      <<"{", "i", "d", "}", ":", " ", "{", "p", "i", "n", "}", "{", "r",
        "e", "t", "u", "r", "n", "}">>,
      <<"{", "i", "d", "}", "{", "s", "l", "e", "e", "p", " ", "a", "b",
        "c", "}">>,
      <<"{", "i", "d", "}", " ", "{", "s", "l", "e", "e", "p", " ", "a",
        "b", "c", "}", "{", "r", "e", "t", "u", "r", "n", "}">>,
      <<"{", "q", ".", "0", "}">>,
      <<"a", "{", "q", ".", "0", "}", "{", "t", "a", "b", "}">> }

\* ------------------------------------------- writer.py: TTY_Writer (106-145)
WEnd(r) == result' = r /\ wpc' = "end"

\* resolve the field, warn, log
TTYBegin(f) ==
    /\ wpc = "idle"
    /\ writer' = "tty"
    /\ field' = f
    /\ IF ~has_field(f)
       THEN /\ msgs' = Append(msgs, NotFound(f))
            /\ WEnd("terminated")
            /\ UNCHANGED <<tvalue, logged, logged2>>
       ELSE LET v == Strip(dedent(get_field(secret, f)))
            IN  /\ tvalue' = IF HasNewline(v) /\ ~is_secret(f)
                             THEN StripChars(indent(dedent(v), IndentSetting),
                                             {"\n"})
                             ELSE v
                /\ msgs' = msgs \o Warnings(f, is_secret(f), v)
                /\ logged' = Append(logged, TTYLog(secret, f))
                /\ logged2' = Append(logged2, TTYLog(shadow, f))
                /\ wpc' = "tty_write"
                /\ UNCHANGED result
    /\ UNCHANGED <<secret, shadow, display_time, script, terms, buffer,
                   scrubbed, scrubbed2, keys, screen, xsel, elapsed,
                   interrupted>>

\* the output string: label, separator, value
Line ==
    ToUpper(field) \o <<":">>
    \o (IF HasNewline(tvalue) /\ ~is_secret(field) THEN <<"\n">> ELSE <<" ">>)
    \o tvalue

\* a secret is written where the cursor is, anything else is printed
TTYWrite ==
    /\ wpc = "tty_write"
    /\ IF is_secret(field)
       THEN /\ screen' = cursor_write(screen, Line \o <<" ">>)
            /\ elapsed' = 0
            /\ wpc' = "tty_wait"
            /\ UNCHANGED result
       ELSE /\ screen' = Output(screen, Line)
            /\ WEnd("returned")
            /\ UNCHANGED elapsed
    /\ UNCHANGED <<writer, secret, shadow, display_time, field, tvalue, script,
                   terms, buffer, scrubbed, scrubbed2, keys, logged, logged2,
                   msgs, xsel, interrupted>>

\* a second of sleep(display_time) goes by
TTYTick ==
    /\ wpc = "tty_wait"
    /\ elapsed < display_time
    /\ elapsed' = elapsed + 1
    /\ UNCHANGED <<writer, wpc, result, secret, shadow, display_time, field,
                   tvalue, script, terms, buffer, scrubbed, scrubbed2, keys,
                   logged, logged2, msgs, screen, xsel, interrupted>>

\* the sleep is over
TTYClear ==
    /\ wpc = "tty_wait"
    /\ elapsed = display_time
    /\ screen' = cursor_clear(screen)
    /\ WEnd("returned")
    /\ UNCHANGED <<writer, secret, shadow, display_time, field, tvalue, script,
                   terms, buffer, scrubbed, scrubbed2, keys, logged, logged2,
                   msgs, xsel, elapsed, interrupted>>

\* TTYInterrupt with a handler that only passes
TTYInterrupt_NoClear ==
    /\ wpc = "tty_wait"
    /\ interrupted' = TRUE
    /\ WEnd("returned")
    /\ UNCHANGED <<writer, secret, shadow, display_time, field, tvalue, script,
                   terms, buffer, scrubbed, scrubbed2, keys, logged, logged2,
                   msgs, screen, xsel, elapsed>>

\* Ctrl-C during the sleep: except KeyboardInterrupt
TTYInterrupt ==
    /\ wpc = "tty_wait"
    /\ interrupted' = TRUE
    /\ screen' = cursor_clear(screen)
    /\ WEnd("returned")
    /\ UNCHANGED <<writer, secret, shadow, display_time, field, tvalue, script,
                   terms, buffer, scrubbed, scrubbed2, keys, logged, logged2,
                   msgs, xsel, elapsed>>

\* -------------------------------------- writer.py: ClipboardWriter (152-190)
\* resolve the field, log
ClipBegin(f) ==
    /\ wpc = "idle"
    /\ writer' = "clipboard"
    /\ field' = f
    /\ IF ~has_field(f)
       THEN /\ msgs' = Append(msgs, NotFound(f))
            /\ WEnd("terminated")
            /\ UNCHANGED <<tvalue, logged, logged2>>
       ELSE /\ tvalue' = Strip(dedent(get_field(secret, f)))
            /\ logged' = Append(logged, ClipLog(secret, f))
            /\ logged2' = Append(logged2, ClipLog(shadow, f))
            /\ wpc' = "clip_run"
            /\ UNCHANGED <<result, msgs>>
    /\ UNCHANGED <<secret, shadow, display_time, script, terms, buffer,
                   scrubbed, scrubbed2, keys, screen, xsel, elapsed,
                   interrupted>>

\* ClipRun answering a failed Run() by printing the value and clearing
ClipRun_FallsThrough ==
    /\ wpc = "clip_run"
    /\ screen' = Output(screen, tvalue)
    /\ xsel' = Append(xsel, <<"-b", "-c">>)
    /\ WEnd("returned")
    /\ UNCHANGED <<writer, secret, shadow, display_time, field, tvalue, script,
                   terms, buffer, scrubbed, scrubbed2, keys, logged, logged2,
                   msgs, elapsed, interrupted>>

\* the argument list of Run() calls get_settings, a name writer.py neither
\* imports nor defines: NameError, which `except Error` lets through
ClipRun ==
    /\ wpc = "clip_run"
    /\ WEnd("NameError")
    /\ UNCHANGED <<writer, secret, shadow, display_time, field, tvalue, script,
                   terms, buffer, scrubbed, scrubbed2, keys, logged, logged2,
                   msgs, screen, xsel, elapsed, interrupted>>

\* --------------------------- writer.py: KeyboardWriter.run_script (221-293)
\* KbBegin splitting the script before the delay
KbBegin_SplitsFirst(given, sc) ==
    /\ wpc = "idle"
    /\ writer' = "keyboard"
    /\ script' = IF given THEN sc ELSE DefaultScript
    /\ terms' = RegexSplit(IF given THEN sc ELSE DefaultScript)
    /\ wpc' = "kb_delay"
    /\ UNCHANGED <<result, secret, shadow, display_time, field, tvalue,
                   buffer, scrubbed, scrubbed2, keys, logged, logged2, msgs,
                   screen, xsel, elapsed, interrupted>>

\* the script is given, or made up from the default field
KbBegin(given, sc) ==
    /\ wpc = "idle"
    /\ writer' = "keyboard"
    /\ script' = IF given THEN sc ELSE DefaultScript
    /\ wpc' = "kb_delay"
    /\ UNCHANGED <<result, secret, shadow, display_time, field, tvalue, terms,
                   buffer, scrubbed, scrubbed2, keys, logged, logged2, msgs,
                   screen, xsel, elapsed, interrupted>>

\* sleep(INITIAL_AUTOTYPE_DELAY) is over, the script is split
KbDelay ==
    /\ wpc = "kb_delay"
    /\ terms' = RegexSplit(script)
    /\ wpc' = "kb_loop"
    /\ UNCHANGED <<writer, result, secret, shadow, display_time, field, tvalue,
                   script, buffer, scrubbed, scrubbed2, keys, logged, logged2,
                   msgs, screen, xsel, elapsed, interrupted>>

\* Ctrl-C during sleep(INITIAL_AUTOTYPE_DELAY): nothing catches it
KbDelayInterrupt ==
    /\ wpc = "kb_delay"
    /\ interrupted' = TRUE
    /\ WEnd("KeyboardInterrupt")
    /\ UNCHANGED <<writer, secret, shadow, display_time, field, tvalue, script,
                   terms, buffer, scrubbed, scrubbed2, keys, logged, logged2,
                   msgs, screen, xsel, elapsed>>

IsCommand(term) ==
    term # <<>> /\ term[1] = "{" /\ term[Len(term)] = "}"

\* fatal('syntax error in keyboard script.')
Fatal(term) ==
    /\ msgs' = Append(msgs, <<"error", "syntax error in keyboard script.", term>>)
    /\ WEnd("terminated")
    /\ UNCHANGED <<terms, scrubbed, scrubbed2>>

\* KbTerm typing what is buffered when a field is not found
KbTerm_TypesBeforeAbort ==
    /\ wpc = "kb_loop"
    /\ terms # <<>>
    /\ LET term == Head(terms)
           command == ToLower(SubSeq(term, 2, Len(term) - 1))
       IN  IF ~IsCommand(term)
           THEN /\ buffer' = Append(buffer, term)
                /\ terms' = Tail(terms)
                /\ UNCHANGED <<wpc, result, scrubbed, scrubbed2, keys, msgs>>
           ELSE IF command \in {<<"t", "a", "b">>,
                            <<"r", "e", "t", "u", "r", "n">>}
           THEN LET c == IF command = <<"t", "a", "b">> THEN <<"\t">> ELSE <<"\n">>
                IN  /\ buffer' = Append(buffer, c)
                    /\ scrubbed' = Append(scrubbed, c)
                    /\ scrubbed2' = Append(scrubbed2, c)
                    /\ terms' = Tail(terms)
                    /\ UNCHANGED <<wpc, result, keys, msgs>>
           ELSE IF StartsWith(command, <<"s", "l", "e", "e", "p", " ">>)
           THEN IF WordCount(command) = 2
                \* what was buffered is typed, then sleep() is given a
                \* string: TypeError
                THEN /\ keys' = IF buffer # <<>>
                                THEN keys \o Keysyms(Join(buffer)) ELSE keys
                     /\ buffer' = <<>>
                     /\ msgs' = (IF buffer # <<>>
                                 THEN msgs \o KeysymErrors(Join(buffer))
                                 ELSE msgs)
                                \o <<<<"error",
                                       "syntax error in keyboard script.",
                                       term>>>>
                     /\ WEnd("terminated")
                     /\ UNCHANGED <<terms, scrubbed, scrubbed2>>
                ELSE /\ Fatal(term)
                     /\ UNCHANGED <<buffer, keys>>
           ELSE IF has_field(command)
           THEN /\ buffer' = Append(buffer, Strip(dedent(get_field(secret, command))))
                /\ scrubbed' =
                       Append(scrubbed,
                              Scrub(command, is_secret(command),
                                    Strip(dedent(get_field(secret, command)))))
                /\ scrubbed2' =
                       Append(scrubbed2,
                              Scrub(command, is_secret(command),
                                    Strip(dedent(get_field(shadow, command)))))
                /\ terms' = Tail(terms)
                /\ UNCHANGED <<wpc, result, keys, msgs>>
           ELSE /\ msgs' = Append(msgs, NotFound(command))
                /\ keys' = keys \o Keysyms(Join(buffer))
                /\ WEnd("terminated")
                /\ UNCHANGED <<terms, buffer, scrubbed, scrubbed2>>
    /\ UNCHANGED <<writer, secret, shadow, display_time, field, tvalue, script,
                   logged, logged2, screen, xsel, elapsed, interrupted>>

\* one turn of the loop over the terms
KbTerm ==
    /\ wpc = "kb_loop"
    /\ terms # <<>>
    /\ LET term == Head(terms)
           command == ToLower(SubSeq(term, 2, Len(term) - 1))
       IN  IF ~IsCommand(term)
           THEN /\ buffer' = Append(buffer, term)
                /\ terms' = Tail(terms)
                /\ UNCHANGED <<wpc, result, scrubbed, scrubbed2, keys, msgs>>
           ELSE IF command \in {<<"t", "a", "b">>,
                            <<"r", "e", "t", "u", "r", "n">>}
           THEN LET c == IF command = <<"t", "a", "b">> THEN <<"\t">> ELSE <<"\n">>
                IN  /\ buffer' = Append(buffer, c)
                    /\ scrubbed' = Append(scrubbed, c)
                    /\ scrubbed2' = Append(scrubbed2, c)
                    /\ terms' = Tail(terms)
                    /\ UNCHANGED <<wpc, result, keys, msgs>>
           ELSE IF StartsWith(command, <<"s", "l", "e", "e", "p", " ">>)
           THEN IF WordCount(command) = 2
                \* what was buffered is typed, then sleep() is given a
                \* string: TypeError
                THEN /\ keys' = IF buffer # <<>>
                                THEN keys \o Keysyms(Join(buffer)) ELSE keys
                     /\ buffer' = <<>>
                     /\ msgs' = (IF buffer # <<>>
                                 THEN msgs \o KeysymErrors(Join(buffer))
                                 ELSE msgs)
                                \o <<<<"error",
                                       "syntax error in keyboard script.",
                                       term>>>>
                     /\ WEnd("terminated")
                     /\ UNCHANGED <<terms, scrubbed, scrubbed2>>
                ELSE /\ Fatal(term)
                     /\ UNCHANGED <<buffer, keys>>
           ELSE IF has_field(command)
           THEN /\ buffer' = Append(buffer, Strip(dedent(get_field(secret, command))))
                /\ scrubbed' =
                       Append(scrubbed,
                              Scrub(command, is_secret(command),
                                    Strip(dedent(get_field(secret, command)))))
                /\ scrubbed2' =
                       Append(scrubbed2,
                              Scrub(command, is_secret(command),
                                    Strip(dedent(get_field(shadow, command)))))
                /\ terms' = Tail(terms)
                /\ UNCHANGED <<wpc, result, keys, msgs>>
           ELSE /\ msgs' = Append(msgs, NotFound(command))
                /\ WEnd("terminated")
                /\ UNCHANGED <<terms, buffer, scrubbed, scrubbed2, keys>>
    /\ UNCHANGED <<writer, secret, shadow, display_time, field, tvalue, script,
                   logged, logged2, screen, xsel, elapsed, interrupted>>

\* the transcript is logged and the buffer typed
KbFinish ==
    /\ wpc = "kb_loop"
    /\ terms = <<>>
    /\ logged' = Append(logged, KbLog(scrubbed))
    /\ logged2' = Append(logged2, KbLog(scrubbed2))
    /\ keys' = keys \o Keysyms(Join(buffer))
    /\ msgs' = msgs \o KeysymErrors(Join(buffer))
    /\ WEnd("returned")
    /\ UNCHANGED <<writer, secret, shadow, display_time, field, tvalue, script,
                   terms, buffer, scrubbed, scrubbed2, screen, xsel, elapsed,
                   interrupted>>

\* ------------------------------------------ writer.py: get_writer (88-95)
\* get_writer with the test of stdout before the test of clipboard
get_writer_StdoutFirst(display, clipboard, stdout) ==
    IF ~display THEN "KeyboardWriter"
    ELSE IF stdout THEN "StdoutWriter"
    ELSE IF clipboard THEN "ClipboardWriter"
    ELSE "TTY_Writer"

get_writer(display, clipboard, stdout) ==
    IF ~display THEN "KeyboardWriter"
    ELSE IF clipboard THEN "ClipboardWriter"
    ELSE IF stdout THEN "StdoutWriter"
    ELSE "TTY_Writer"

\* a call of get_writer
GetWriter(display, clipboard, stdout) ==
    /\ wpc = "idle"
    /\ writer' = "get_writer"
    /\ selection' = [called |-> TRUE, display |-> display,
                     clipboard |-> clipboard, stdout |-> stdout,
                     chosen |-> get_writer(display, clipboard, stdout)]
    /\ WEnd("returned")
    /\ UNCHANGED <<secret, shadow, display_time, field, tvalue, script, terms,
                   buffer, scrubbed, scrubbed2, keys, logged, logged2, msgs,
                   screen, xsel, elapsed, interrupted>>

\* ---------------------------- command.py: LoginCredentials.run (994-1028)
\* get_writer(tty=True): get_writer() has no parameter tty, TypeError,
\* before any account is read or any field displayed
Credentials ==
    /\ wpc = "idle"
    /\ writer' = "credentials"
    /\ WEnd("TypeError")
    /\ UNCHANGED <<secret, shadow, display_time, field, tvalue, script, terms,
                   buffer, scrubbed, scrubbed2, keys, logged, logged2, msgs,
                   screen, xsel, elapsed, interrupted>>

\* the process is over, the next one starts
WriterExit ==
    /\ wpc = "end"
    /\ wpc' = "idle"
    /\ writer' = "none"
    /\ result' = "none"
    /\ field' = <<>>
    /\ tvalue' = <<>>
    /\ script' = <<>>
    /\ terms' = <<>>
    /\ buffer' = <<>>
    /\ scrubbed' = <<>>
    /\ scrubbed2' = <<>>
    /\ keys' = <<>>
    /\ logged' = <<>>
    /\ logged2' = <<>>
    /\ msgs' = <<>>
    /\ screen' = <<<<>>>>
    /\ xsel' = <<>>
    /\ elapsed' = 0
    /\ interrupted' = FALSE
    /\ UNCHANGED <<secret, shadow, display_time>>

\* the state a disclosure command starts in
WriterInit ==
    /\ EditInit
    /\ Quiet
    /\ wpc = "idle"
    /\ secret \in Secrets
    /\ shadow \in Secrets
    /\ display_time \in 0..MaxDisplayTime
    /\ selection = Unselected
    /\ CommandOff
    /\ declared = NoIds
    /\ IdsOff

\* a step of a writer: add and edit stand still, no writer is selected
Same == UNCHANGED <<evars, xvars, selection, elsewhere>>

WriterNext ==
    \/ \E f \in {pin, id, note, nope} : TTYBegin(f) /\ Same
    \/ TTYWrite /\ Same
    \/ TTYTick /\ Same
    \/ TTYClear /\ Same
    \/ TTYInterrupt /\ Same
    \/ \E f \in {pin, id, note, nope} : ClipBegin(f) /\ Same
    \/ ClipRun /\ Same
    \/ KbBegin(FALSE, <<>>) /\ Same
    \/ \E sc \in Scripts : KbBegin(TRUE, sc) /\ Same
    \/ KbDelay /\ Same
    \/ KbDelayInterrupt /\ Same
    \/ KbTerm /\ Same
    \/ KbFinish /\ Same
    \/ Credentials /\ Same
    \/ \E d \in BOOLEAN, c \in BOOLEAN, o \in BOOLEAN :
           GetWriter(d, c, o) /\ UNCHANGED <<evars, xvars, elsewhere>>
    \/ WriterExit /\ selection' = Unselected /\ UNCHANGED <<evars, xvars, elsewhere>>

SpecWriter == WriterInit /\ [][WriterNext]_vars

\* ------------------------------------- command.py: Command (47-82)
\* the NAMES of the subclasses of Command
NAMES ==
    [Add |-> {"add", "a"},
     Archive |-> {"archive", "A"},
     Browse |-> {"browse", "b"},
     Changed |-> {"changed", "C"},
     Conceal |-> {"conceal", "c"},
     Edit |-> {"edit", "e"},
     Find |-> {"find", "f"},
     Help |-> {"help", "h"},
     Identity |-> {"identity", "ident", "i"},
     Initialize |-> {"initialize", "init", "I"},
     Log |-> {"log"},
     LoginCredentials |-> {"credentials", "login", "l"},
     New |-> {"new", "N"},
     PhoneticAlphabet |-> {"phonetic", "alphabet", "p"},
     Reveal |-> {"reveal", "r"},
     Search |-> {"search", "s"},
     Value |-> {"value", "val", "v"},
     Values |-> {"values", "vals", "V"},
     Version |-> {"version"}]

\* Command.find(name): the command that has the name, or None
find(name) ==
    IF \E c \in DOMAIN NAMES : name \in NAMES[c]
    THEN CHOOSE c \in DOMAIN NAMES : name \in NAMES[c]
    ELSE None

\* the names the program is invoked with, and the arguments after them
CommandNames == {"value", "v", "vc", "credentials", "archive", "A", "bank"}

ArgLists ==
    { <<>>,
      <<"bank">>,
      <<"pin">>,
      <<"bank", "pin">>,
      <<"-c", "bank", "pin">>,
      <<"--clipboard", "bank">>,
      <<"-s", "bank", "pin">>,
      <<"-T", "Bank Login">>,
      <<"--title", "Bank Login", "-v">>,
      <<"-T">>,
      <<"-x", "bank">> }

\* Command.execute(name, args), up to the call of run()
Execute(name, args) ==
    /\ cpc = "idle"
    /\ invoked' = [name |-> name, args |-> args]
    /\ IF find(name) # None
       THEN /\ command_class' = find(name)
            /\ argv' = <<name>> \o args
       ELSE LET all == <<name>> \o args
                as == IF Len(all) > 1 THEN "value" ELSE "credentials"
            IN  /\ command_class' = find(as)
                /\ argv' = <<as>> \o all
    /\ cpc' = "run"
    /\ UNCHANGED <<cmdline, cresult, gvars, avars>>

\* ------------------------------------------------- docopt(cls.USAGE, argv)
\* the tokens that are written as options
OptionTokens ==
    {"-c", "--clipboard", "-s", "--stdout", "-S", "--seed", "-v",
     "--verbose", "-T", "--title", "-x"}

\* the options that take the next token as their value
Valued == {"-T", "--title"}

\* the options and the positional arguments of argv
RECURSIVE Scan(_)
Scan(a) ==
    IF a = <<>>
    THEN [ok |-> TRUE, pos |-> <<>>, opts |-> {}, title |-> None]
    ELSE IF Head(a) \in Valued
    THEN IF Len(a) < 2
         THEN [ok |-> FALSE, pos |-> <<>>, opts |-> {}, title |-> None]
         ELSE LET r == Scan(SubSeq(a, 3, Len(a)))
              IN  [r EXCEPT !.opts = @ \cup {Head(a)}, !.title = a[2]]
    ELSE LET r == Scan(Tail(a))
         IN  IF Head(a) \in OptionTokens
             THEN [r EXCEPT !.opts = @ \cup {Head(a)}]
             ELSE [r EXCEPT !.pos = <<Head(a)>> \o @]

\* the usage patterns: the command words, the options, the arguments
Usage ==
    [Value |-> [words |-> {"value", "val", "v", "vc"},
                opts |-> {"-c", "--clipboard", "-s", "--stdout", "-S",
                          "--seed", "-v", "--verbose", "-T", "--title"},
                least |-> 0, most |-> 2],
     LoginCredentials |-> [words |-> {"credentials", "login", "l"},
                           opts |-> {"-S", "--seed"},
                           least |-> 1, most |-> 1],
     Archive |-> [words |-> {"archive", "A"}, opts |-> {},
                  least |-> 0, most |-> 0]]

\* docopt: the command word comes first among the positional arguments
\* and must be one of the usage's; nothing may be left over
docopt(usage, a) ==
    LET r == Scan(a)
        n == Len(r.pos) - 1
    IN  IF /\ r.ok
           /\ r.opts \subseteq usage.opts
           /\ r.pos # <<>>
           /\ r.pos[1] \in usage.words
           /\ n >= usage.least
           /\ n <= usage.most
        THEN [ok |-> TRUE,
              word |-> r.pos[1],
              clipboard |-> r.opts \cap {"-c", "--clipboard"} # {},
              stdout |-> r.opts \cap {"-s", "--stdout"} # {},
              seed |-> r.opts \cap {"-S", "--seed"} # {},
              verbose |-> r.opts \cap {"-v", "--verbose"} # {},
              title |-> r.title,
              account |-> IF n >= 1 THEN r.pos[2] ELSE None,
              field |-> IF n >= 2 THEN r.pos[3] ELSE None]
        ELSE NoCmdline

\* the first statement of run(): the command line is read, and docopt
\* ends the program with the usage when it does not fit
Docopt ==
    /\ cpc = "run"
    /\ cmdline' = docopt(Usage[command_class], argv)
    /\ IF ~docopt(Usage[command_class], argv).ok
       THEN /\ cresult' = "usage"
            /\ cpc' = "done"
            /\ UNCHANGED archive0
       ELSE /\ cpc' = IF command_class = "Archive"
                      THEN "archive" ELSE "generator"
            /\ archive0' = archive_file
            /\ UNCHANGED cresult
    /\ UNCHANGED <<invoked, command_class, argv, gvars, previous_setting,
                   archive_file, previous_archive>>

\* ------------------------------ generator.py: PasswordGenerator (58-200)
\* the largest number of accounts files in the setting
MaxFiles == 3

FileNames == {"personal.gpg", "public.gpg", "work.gpg"}

AccountNames == {"bank", "mail", "wiki", "vpn"}

\* what reading an accounts file gives: its master_password if it has
\* one, and its accounts, each with the master it defines itself if any
Contents ==
    [f \in FileNames |->
        CASE f = "personal.gpg" ->
                 [master_password |-> "m1",
                  accounts |-> [bank |-> Unset, mail |-> "own"]]
          [] f = "public.gpg" ->
                 [master_password |-> Unset,
                  accounts |-> [wiki |-> Unset]]
          [] f = "work.gpg" ->
                 [master_password |-> "m2",
                  accounts |-> [vpn |-> Unset]]]

\* the lists of distinct accounts files the setting may hold
FileLists ==
    {<<>>} \cup
    {l \in UNION {[1..n -> FileNames] : n \in 1..MaxFiles} :
        \A i \in DOMAIN l : \A j \in DOMAIN l : l[i] = l[j] => i = j}

\* add_missing_master with the test of hasattr forgotten
add_missing_master_Overwrites(m, all, m_password) ==
    [a \in DOMAIN m |-> IF a \in all THEN m_password ELSE m[a]]

\* add_missing_master(master)
add_missing_master(m, all, m_password) ==
    [a \in DOMAIN m |->
        IF a \in all /\ m[a] = Unset THEN m_password ELSE m[a]]

\* one turn of the loop over the accounts files
GenRead ==
    /\ cpc = "generator"
    /\ opened < Len(accounts_files)
    /\ \/ LET contents == Contents[accounts_files[opened + 1]]
              all == defined \cup DOMAIN contents.accounts
              read == [a \in AccountNames |->
                          IF a \in DOMAIN contents.accounts
                          THEN contents.accounts[a] ELSE master[a]]
          IN  /\ opened' = opened + 1
              /\ defined' = all
              /\ master' = IF contents.master_password # Unset
                           THEN add_missing_master(read, all,
                                                   contents.master_password)
                           ELSE read
              /\ UNCHANGED <<cpc, cresult>>
       \/ /\ cresult' = "terminated"
          /\ cpc' = "done"
          /\ UNCHANGED <<opened, defined, master>>
    /\ UNCHANGED <<invoked, command_class, argv, cmdline, accounts_files,
                   avars>>

\* the loop is over
GenDone ==
    /\ cpc = "generator"
    /\ opened = Len(accounts_files)
    /\ IF Len(accounts_files) = 0
       THEN cresult' = "terminated" /\ cpc' = "done"
       ELSE cpc' = "loaded" /\ UNCHANGED cresult
    /\ UNCHANGED <<invoked, command_class, argv, cmdline, gvars, avars>>

\* ------------------------------------- command.py: Value.run (1313-1337)
\* generator.get_account(account_name, seed) gives get_account() one
\* argument too many, discover_account(title=..., verbose=...) gives
\* discover_account() arguments it does not have: TypeError either way
ValueRun ==
    /\ cpc = "loaded"
    /\ command_class = "Value"
    /\ IF cmdline.account # None
       THEN cresult' = "TypeError"
       ELSE cresult' = "TypeError"
    /\ cpc' = "done"
    /\ UNCHANGED <<invoked, command_class, argv, cmdline, gvars, avars>>

\* --------------------------- command.py: LoginCredentials.run (994-1028)
\* get_writer(tty=True): TypeError
CredentialsRun ==
    /\ cpc = "loaded"
    /\ command_class = "LoginCredentials"
    /\ cresult' = "TypeError"
    /\ cpc' = "done"
    /\ UNCHANGED <<invoked, command_class, argv, cmdline, gvars, avars>>

\* --------------------------------------- command.py: Archive.run (327-373)
\* ArchiveCopy with the existing archive left uncopied
ArchiveCopy_NoCopy ==
    /\ cpc = "archive"
    /\ cpc' = "generator"
    /\ UNCHANGED <<invoked, command_class, argv, cmdline, cresult, gvars,
                   avars>>

\* first, save the existing archive if it exists
ArchiveCopy ==
    /\ cpc = "archive"
    /\ IF previous_setting /\ archive_file # Absent
       THEN \/ /\ previous_archive' = archive_file
               /\ cpc' = "generator"
               /\ UNCHANGED cresult
            \/ /\ previous_archive' \in {previous_archive, Absent, "partial"}
               /\ cresult' = "PasswordError"
               /\ cpc' = "done"
       ELSE /\ cpc' = "generator"
            /\ UNCHANGED <<previous_archive, cresult>>
    /\ UNCHANGED <<invoked, command_class, argv, cmdline, gvars,
                   previous_setting, archive_file, archive0>>

\* generator.all_accounts(): PasswordGenerator has no such attribute, so
\* the command ends here and the new archive is never written
ArchiveRun ==
    /\ cpc = "loaded"
    /\ command_class = "Archive"
    /\ cresult' = "AttributeError"
    /\ cpc' = "done"
    /\ UNCHANGED <<invoked, command_class, argv, cmdline, gvars, avars>>

\* the process is over, the next one starts
CommandExit ==
    /\ cpc = "done"
    /\ cpc' = "idle"
    /\ invoked' = [name |-> None, args |-> <<>>]
    /\ command_class' = None
    /\ argv' = <<>>
    /\ cmdline' = NoCmdline
    /\ cresult' = "none"
    /\ opened' = 0
    /\ defined' = {}
    /\ master' = [a \in AccountNames |-> Unset]
    /\ UNCHANGED <<accounts_files, avars>>

\* the state a command is dispatched in
CommandInit ==
    /\ EditInit
    /\ declared = NoIds
    /\ IdsOff
    /\ WriterOff
    /\ selection = Unselected
    /\ invoked = [name |-> None, args |-> <<>>]
    /\ command_class = None
    /\ argv = <<>>
    /\ cmdline = NoCmdline
    /\ cpc = "idle"
    /\ cresult = "none"
    /\ accounts_files \in FileLists
    /\ opened = 0
    /\ defined = {}
    /\ master = [a \in AccountNames |-> Unset]
    /\ previous_setting \in BOOLEAN
    /\ archive_file \in {Absent, "A1"}
    /\ previous_archive \in {Absent, "A0"}
    /\ archive0 = Absent

\* a step of a command: add, edit and the writers stand still
Aside == UNCHANGED <<evars, xvars, wvars, selection, pvars>>

CommandNext ==
    \/ \E name \in CommandNames, args \in ArgLists :
           Execute(name, args) /\ Aside
    \/ Docopt /\ Aside
    \/ GenRead /\ Aside
    \/ GenDone /\ Aside
    \/ ValueRun /\ Aside
    \/ CredentialsRun /\ Aside
    \/ ArchiveCopy /\ Aside
    \/ ArchiveRun /\ Aside
    \/ CommandExit /\ Aside

SpecCommand == CommandInit /\ [][CommandNext]_vars

\* -------------------------- command.py: Add.run, the request (172-204)
\* the accounts files of the setting, letter by letter
Spelling ==
    [f \in FileNames |->
        CASE f = "personal.gpg" ->
                 <<"p", "e", "r", "s", "o", "n", "a", "l", ".", "g", "p", "g">>
          [] f = "public.gpg" ->
                 <<"p", "u", "b", "l", "i", "c", ".", "g", "p", "g">>
          [] f = "work.gpg" ->
                 <<"w", "o", "r", "k", ".", "g", "p", "g">>]

\* cmdline['--file']: not given, or a prefix of one, of two, of no file
Prefixes == {<<>>, <<"p", "e">>, <<"p">>, <<"x">>}

\* get_setting('account_templates')
account_templates == [bank |-> template]

default_account_template == "bank"

\* cmdline['<template>']
TemplateArgs == {None, "bank", "nonesuch"}

\* the ids of the files change as given, the rest of the request stays
Ids(r, s, t) ==
    /\ recipients' = r
    /\ saved_recipients' = s
    /\ tmp_recipients' = t
    /\ UNCHANGED <<request, gpg_ids, declared>>

\* AddRequest backing the file up before the request is looked at
AddRequest_BackupFirst(prefix, name) ==
    LET candidates ==
            SelectSeq(accounts_files,
                      LAMBDA f : StartsWith(Spelling[f], prefix))
        template_name == IF name # None THEN name ELSE default_account_template
        filename == IF prefix = <<>> THEN accounts_files[1]
                    ELSE IF Len(candidates) = 1 THEN candidates[1] ELSE None
        accepted ==
            /\ filename # None
            /\ template_name \in DOMAIN account_templates
    IN  /\ request' = [accepted |-> accepted, filename |-> filename,
                       template_name |-> IF filename # None
                                         THEN template_name ELSE None]
        /\ IF accepted
           THEN /\ AddBegin
                /\ gpg_ids' = IF pc' = "add_backup" THEN declared ELSE gpg_ids
           ELSE /\ pc = "idle"
                /\ run < MaxRuns
                /\ run' = run + 1
                /\ cmd' = "add"
                /\ Raise("PasswordError")
                /\ backups' = backup(AccountsPath, ".saved", acct)
                /\ UNCHANGED <<acct, tmps, retries,
                               orig_accounts_code, pre, entered, out, gpg_ids>>
        /\ UNCHANGED <<declared, recipients, saved_recipients, tmp_recipients>>

\* Add.run up to the reading of the accounts file: the file and the
\* template are settled first, and a request that names no file, several
\* files or no template is turned down with a PasswordError
AddRequest(prefix, name) ==
    LET candidates ==
            SelectSeq(accounts_files,
                      LAMBDA f : StartsWith(Spelling[f], prefix))
        template_name == IF name # None THEN name ELSE default_account_template
        filename == IF prefix = <<>> THEN accounts_files[1]
                    ELSE IF Len(candidates) = 1 THEN candidates[1] ELSE None
        accepted ==
            /\ filename # None
            /\ template_name \in DOMAIN account_templates
    IN  /\ request' = [accepted |-> accepted, filename |-> filename,
                       template_name |-> IF filename # None
                                         THEN template_name ELSE None]
        /\ IF accepted
           THEN /\ AddBegin
                /\ gpg_ids' = IF pc' = "add_backup" THEN declared ELSE gpg_ids
           ELSE /\ pc = "idle"
                /\ run < MaxRuns
                /\ run' = run + 1
                /\ cmd' = "add"
                /\ Raise("PasswordError")
                /\ UNCHANGED <<acct, backups, tmps, retries,
                               orig_accounts_code, pre, entered, out, gpg_ids>>
        /\ UNCHANGED <<declared, recipients, saved_recipients, tmp_recipients>>

\* AddSaveIds saving for the recipients of the setting
AddSaveIds_Setting ==
    /\ AddSave
    /\ Ids(IF pc' = "add_run" THEN Recipients(SettingIds) ELSE recipients,
           saved_recipients, tmp_recipients)

\* new_accounts_file.save(accounts, gpg_ids)
AddSaveIds ==
    /\ AddSave
    /\ Ids(IF pc' = "add_run" THEN Recipients(gpg_ids) ELSE recipients,
           saved_recipients, tmp_recipients)

\* a step that opens no editor session
NoSession == UNCHANGED <<seed, wvars, selection, elsewhere>>

\* a step in which the editor is opened on a file holding the text t
Session(t) == seed' = t /\ UNCHANGED <<wvars, selection, elsewhere>>

\* the backup copy is encrypted as the file is
Backed(at) == IF pc' = at THEN recipients ELSE saved_recipients

\* the file is encrypted as the backup copied over it is
Restored == IF HasSaved(AccountsPath) THEN saved_recipients ELSE recipients

Next ==
    \/ \E prefix \in Prefixes, name \in TemplateArgs :
           AddRequest(prefix, name) /\ NoSession
    \/ AddBackup /\ NoSession
           /\ Ids(recipients, Backed("add_tmpsave"), tmp_recipients)
    \/ AddSaveTemplate /\ NoSession
           /\ Ids(recipients, saved_recipients,
                  IF pc' = "add_editor" THEN Recipients(SettingIds)
                  ELSE tmp_recipients)
    \/ AddEditor /\ Session(tmps[run]) /\ UNCHANGED xvars
    \/ AddCheck /\ NoSession /\ UNCHANGED xvars
    \/ AddSaveIds /\ NoSession
    \/ AddRun /\ NoSession /\ UNCHANGED xvars
    \/ AddQuery /\ NoSession /\ UNCHANGED xvars
    \/ AddExcept /\ NoSession
           /\ Ids(Restored, saved_recipients, tmp_recipients)
    \/ AddRemove /\ NoSession /\ Ids(recipients, saved_recipients, {})
    \/ EditBegin /\ NoSession /\ UNCHANGED xvars
    \/ EditBackup /\ NoSession
           /\ Ids(recipients, Backed("edit_editor"), tmp_recipients)
    \/ EditEditor /\ Session(acct) /\ UNCHANGED xvars
    \/ EditRun /\ NoSession /\ UNCHANGED xvars
    \/ EditQuery /\ NoSession /\ UNCHANGED xvars
    \/ EditExcept /\ NoSession
           /\ Ids(Restored, saved_recipients, tmp_recipients)
    \/ Interrupt /\ NoSession /\ UNCHANGED xvars
    \/ Exit /\ Session(NoFile)
           /\ request' = NoRequest
           /\ gpg_ids' = NoIds
           /\ tmp_recipients' = {}
           /\ UNCHANGED <<declared, recipients, saved_recipients>>

\* the command runs to its end: no step is left waiting for ever
FairSpec == Init /\ [][Next]_vars /\ WF_vars(Next)

Spec == Init /\ [][Next]_vars

\* ------------------------------------------------------------ properties
Ended == pc = "done"

Declined == Ended /\ exc = "Giving up" /\ outcome = "rolledback"

\* the backup of the accounts file holds the text t
SavedHolds(t) ==
    \E b \in backups : b.of = AccountsPath /\ b.tag = ".saved" /\ b.text = t

Reported(msg) == \E i \in 1..Len(out) : out[i] = msg

\* the steps of the edit/validate loop in which a storage failure may arise
LoopSteps ==
    {"add_editor", "add_check", "add_save", "add_run", "edit_editor",
     "edit_run"}

\* C1: when validation failed and the user declined the retry (after any
\* number of accepted retries), the accounts file ends with the bytes it had
\* when the backup was taken.
C1_DeclineRestoresBytes == Declined => acct = pre

C1_Witness ==
    /\ Declined
    /\ cmd = "add"
    /\ retries >= 1
    /\ entered # template
    /\ acct = pre

\* C2: however an add or edit invocation ends, the accounts file holds its
\* pre-edit bytes or content that passed validation.
C2_NeverCorrupted == Ended /\ pre # NoFile => acct = pre \/ Parses(acct)

\* C3: from the creation of the backup until the invocation ends, the
\* pre-edit bytes are in the accounts file or in its backup, and no step
\* changes the backups while the accounts file differs from the pre-edit
\* bytes.
C3_PreviousVersionKept ==
    /\ [](pre # NoFile => acct = pre \/ SavedHolds(pre))
    /\ [][pre # NoFile /\ pre' = pre /\ acct # pre => backups' = backups]_vars

C3_Witness ==
    /\ Ended
    /\ outcome = "interrupted"
    /\ ~Parses(acct)
    /\ acct # pre
    /\ SavedHolds(pre)

\* C4: whenever a write to the accounts file is attempted (Add's save of
\* the combined text, Edit's editor session) this invocation's backup of
\* the file exists, and there is never more than one backup of the file.
C4_BackupBeforeWrite ==
    /\ pc \in {"add_save", "edit_editor"} => pre # NoFile /\ SavedHolds(pre)
    /\ Cardinality(BackupCopies(AccountsPath)) <= 1

C4_Witness ==
    /\ pc = "add_save"
    /\ run = 2
    /\ retries = 1
    /\ acct # pre
    /\ Cardinality(BackupCopies(AccountsPath)) = 1

\* C5: when Add.run reports 'Unchanged, and so ignored.', on any iteration
\* of its loop, the accounts file holds its pre-edit bytes.
C5_UnchangedMutatesNothing ==
    cmd = "add" /\ outcome = "unchanged" => acct = pre

StorageFailure == pc \in LoopSteps /\ exc' = "OSError"

\* the handler entered with a storage failure runs to its end
StorageHandled ==
    /\ pc \in {"add_except", "edit_except"}
    /\ exc = "OSError"
    /\ pc' = "done"
    /\ outcome' # "interrupted"

\* C7: a storage failure raised in a step of the edit/validate loop (editor
\* session, reading the edited text, saving the candidate, re-parsing) goes
\* straight to the handler that restores the backup, and the retry prompt
\* is only ever reached with a validation error.
C7_StorageErrorRollsBack ==
    /\ [][StorageFailure => pc' \in {"add_except", "edit_except"}]_vars
    /\ [][StorageHandled => acct' = pre /\ outcome' = "rolledback"]_vars
    /\ [](pc \in {"add_query", "edit_query"} => exc = "PasswordError")

C7_Witness ==
    /\ Ended
    /\ cmd = "add"
    /\ exc = "OSError"
    /\ outcome = "rolledback"
    /\ ~Reported("Try again?")
    /\ acct = pre
    /\ entered # template

\* C8: when the user declines the retry prompt, in add and in edit, the
\* backup is restored and what the user entered remains in a temp file
\* whose location is reported.
C8_DeclineKeepsEnteredText ==
    Declined
        => /\ acct = pre
           /\ \E n \in DOMAIN tmps : tmps[n] = entered
           /\ Reported("What you entered can be found in tmp")

\* C9: when Add.run ends other than by rollback (an interrupt left aside),
\* its temp file no longer exists.
C9_TempOnlyOnRollback ==
    cmd = "add" /\ Ended /\ outcome \in {"committed", "unchanged", "error"}
        => tmps[run] = NoFile

EditorSteps == {"add_editor", "edit_editor"}

QuerySteps == {"add_query", "edit_query"}

ExceptSteps == {"add_except", "edit_except"}

ValidatingSteps == {"add_save", "add_run", "edit_run"} \cup QuerySteps

\* C11 as stated: after an accepted retry the editor is reopened on the
\* text the user entered in the previous session, and that text is the
\* seed of the next 'unchanged' test: a session that leaves it as it was
\* is reported unchanged, and only that (or a blank text) is.
C11_CandidateIsNewSeed ==
    /\ pc = "add_editor" /\ retries >= 1 => tmps[run] = entered
    /\ pc = "edit_editor" /\ retries >= 1 => acct = entered
    /\ pc = "add_save" => entered # seed
    /\ cmd = "add" /\ outcome = "unchanged"
           => entered = seed \/ IsBlank(entered)

\* C11 amended: after an accepted retry the editor is reopened on the text
\* the user left in the previous session (Add: the temp file, Edit: the
\* accounts file), but Add's 'unchanged' test is still made against the
\* original template or a blank text, and Edit makes none.
C11_ReopenedOnEnteredText ==
    /\ pc = "add_editor" /\ retries >= 1 => tmps[run] = entered
    /\ pc = "edit_editor" /\ retries >= 1 => acct = entered
    /\ pc = "add_save" => ~IsBlank(entered) /\ entered # template
    /\ cmd = "add" /\ outcome = "unchanged"
           => entered = template \/ IsBlank(entered)
    /\ cmd = "edit" => outcome # "unchanged"

C11_Witness ==
    /\ pc = "add_save"
    /\ retries >= 1
    /\ entered = seed
    /\ entered # template
    /\ ~Parses(acct)

\* the state of the spec's machine a position of the code stands for; the
\* handler about to restore is on its way to RolledBack
Phase ==
    CASE pc \in {"idle", "add_backup", "edit_backup"} -> "Idle"
      [] pc = "add_tmpsave" -> "BackedUp"
      [] pc \in EditorSteps /\ entered = NoFile -> "BackedUp"
      [] pc \in EditorSteps /\ entered # NoFile -> "Editing"
      [] pc = "add_check" -> "Editing"
      [] pc \in ValidatingSteps -> "Validating"
      [] pc \in ExceptSteps -> "Aborting"
      [] pc = "add_remove" -> "Committed"
      [] pc = "done" /\ outcome = "committed" -> "Committed"
      [] pc = "done" /\ outcome = "rolledback" -> "RolledBack"
      [] OTHER -> "Stopped"

\* the machine's edges; Edit's editor session is one step of the code and
\* passes through Editing; the command may stop anywhere (no-op report,
\* error before the loop, interrupt), and the next process starts Idle
Edges ==
    { <<"Idle", "BackedUp">>, <<"BackedUp", "Editing">>,
      <<"Editing", "Validating">>, <<"Validating", "Committed">>,
      <<"Validating", "Editing">>, <<"Validating", "Aborting">>,
      <<"Editing", "Aborting">>, <<"BackedUp", "Aborting">>,
      <<"Aborting", "RolledBack">> }
    \cup {<<p, "Stopped">> :
            p \in {"Idle", "BackedUp", "Editing", "Validating", "Aborting"}}
    \cup {<<p, "Idle">> : p \in {"Committed", "RolledBack", "Stopped"}}

PhaseStep ==
    \/ Phase' = Phase
    \/ <<Phase, Phase'>> \in Edges
    \/ cmd = "edit" /\ Phase = "BackedUp" /\ Phase' = "Validating"
    \/ cmd = "edit" /\ Phase = "Editing" /\ Phase' = "Validating"

\* validation is entered from an editor session only
EntersValidation ==
    Phase # "Validating" /\ Phase' = "Validating"
        => entered' # NoFile /\ pc \in EditorSteps \cup {"add_check"}

\* Committed is entered from a validation that succeeded only
EntersCommitted ==
    Phase # "Committed" /\ Phase' = "Committed"
        => pc \in {"add_run", "edit_run"} /\ Parses(acct)

\* a retry is entered from a failed validation and an accepted prompt only
EntersRetry ==
    Phase = "Validating" /\ Phase' = "Editing"
        => pc \in QuerySteps /\ ~Parses(acct) /\ Reported("Try again?")'

\* RolledBack is entered from a declined prompt or an error only
EntersRolledBack ==
    Phase # "RolledBack" /\ Phase' = "RolledBack"
        => pc \in ExceptSteps /\ exc \in {"Giving up", "OSError"}

\* the accounts file is left alone once the run is Committed or RolledBack
TerminalKeepsFile ==
    Phase \in {"Committed", "RolledBack"} /\ run' = run => acct' = acct

\* C12: every execution of Add.run and Edit.run is a path of the machine
\* Idle -> BackedUp -> Editing -> Validating -> {Committed | Editing |
\* RolledBack}: validation follows an editor session, Committed follows a
\* validation that succeeded, a retry follows a failed validation and an
\* accepted prompt, RolledBack follows a declined prompt or an error, and
\* the accounts file is not touched after Committed or RolledBack.
C12_PathOfStateMachine ==
    /\ [][PhaseStep]_vars
    /\ [][EntersValidation]_vars
    /\ [][EntersCommitted]_vars
    /\ [][EntersRetry]_vars
    /\ [][EntersRolledBack]_vars
    /\ [][TerminalKeepsFile]_vars

C12_Witness ==
    /\ Phase = "Committed"
    /\ pc = "done"
    /\ retries >= 1
    /\ cmd = "add"
    /\ acct # pre

LoopSteps2 == EditorSteps \cup {"add_check"} \cup ValidatingSteps

\* the ways out of the loop: validation succeeded, no-op edit, interrupt,
\* declined prompt or storage error
LeavesLoop ==
    pc \in LoopSteps2 /\ pc' \notin LoopSteps2
        => \/ pc' = "add_remove" /\ Parses(acct)
           \/ pc' = "done" /\ outcome' \in {"committed", "unchanged",
                                            "interrupted"}
           \/ pc' \in ExceptSteps /\ exc' \in {"Giving up", "OSError"}

AddRetryOffered ==
    pc = "add_query" /\ retries < MaxRetries
        => ENABLED (AddQuery /\ pc' = "add_editor")

EditRetryOffered ==
    pc = "edit_query" /\ retries < MaxRetries
        => ENABLED (EditQuery /\ pc' = "edit_editor")

\* C13: the retry loop has no cap of its own: at the prompt a retry can be
\* accepted however many were accepted before; the loop is left only by a
\* successful validation, a no-op edit, a decline or an error (an interrupt
\* included); and a command that has started comes to its end.
C13_UnboundedRetries ==
    /\ []AddRetryOffered
    /\ []EditRetryOffered
    /\ [][LeavesLoop]_vars
    /\ (pc \notin {"idle", "done"}) ~> (pc = "done")

C13_Witness ==
    /\ pc \in QuerySteps
    /\ retries = MaxRetries
    /\ ~Parses(acct)

\* ------------------------------------------ the disclosure channels (C14..C20)
\* the lines of the resolved secret that have something on them
SecretLines == {l \in {SplitNl(tvalue)[i] : i \in DOMAIN SplitNl(tvalue)} : l # <<>>}

\* a line of the terminal shows a line of the secret
ShowsSecret ==
    \E i \in DOMAIN screen : \E l \in SecretLines : Holds(screen[i], l)

\* the operation got its value and is over
Over(w) == writer = w /\ wpc = "end" /\ result # "terminated"

Warned == \E i \in DOMAIN msgs : msgs[i][1] = "warning"

C15_ClipboardClearedAtEnd ==
    Over("clipboard") /\ is_secret(field)
        => /\ result = "returned"
           /\ Len(xsel) >= 2
           /\ xsel[Len(xsel)] = <<"-b", "-c">>

\* C16 as stated: for a secret ClipboardWriter issues the clear after at
\* most display_time one-second ticks from placing the value.
C16_ClearedWithinDisplayTime ==
    Over("clipboard") /\ is_secret(field)
        => /\ \E i \in DOMAIN xsel : xsel[i] = <<"-b", "-c">>
           /\ elapsed <= display_time

\* C17 as stated: when TTY_Writer.display_field returns for a secret,
\* nothing of the secret is left on the terminal.
C17_SecretNeverStays ==
    Over("tty") /\ is_secret(field) => ~ShowsSecret

\* C17 amended: when TTY_Writer.display_field returns for a secret, the
\* line the cursor is on has been cleared, at the end of the display_time
\* wait or at once on an interrupt; a secret of one line is then gone
\* from the terminal, while of a secret with line breaks the lines above
\* the cursor stay.
C17_CursorLineCleared ==
    /\ Over("tty") /\ is_secret(field)
           => /\ result = "returned"
              /\ screen[Len(screen)] = <<>>
              /\ interrupted \/ elapsed = display_time
    /\ Over("tty") /\ is_secret(field) /\ ~HasNewline(tvalue) => ~ShowsSecret
    /\ Over("tty") /\ is_secret(field) /\ HasNewline(tvalue) => ShowsSecret
    /\ wpc = "tty_wait" => ShowsSecret

C17_Witness ==
    /\ Over("tty")
    /\ is_secret(field)
    /\ interrupted
    /\ elapsed < display_time
    /\ ~HasNewline(tvalue)
    /\ screen = <<<<>>>>

\* C18 as stated: an interrupt during the wait of TTY_Writer or the
\* countdown of ClipboardWriter ends in a cleared medium and a normal
\* return, and the credentials command goes on to display its fields.
C18_InterruptIsNoError ==
    /\ interrupted /\ wpc = "end" /\ writer \in {"tty", "clipboard"}
           => result = "returned" /\ screen[Len(screen)] = <<>>
    /\ writer = "credentials" /\ wpc = "end"
           => result = "returned" /\ logged # <<>>

\* C19 as stated: an interrupt during any timed wait, the initial delay
\* of run_script included, goes on to the next step and the operation
\* returns normally.
C19_EveryWaitPreemptible ==
    interrupted /\ wpc = "end" => result = "returned"

\* the channel is about to hand the value to its medium, or has
Disclosing ==
    \/ wpc \in {"tty_write", "tty_wait", "clip_run"}
    \/ Over("tty")
    \/ Over("clipboard")

\* C20 as stated: a secret with a line break in it is disclosed by
\* TTY_Writer and by ClipboardWriter only after a warning.
C20_WarnedBeforeDisclosure ==
    Disclosing /\ is_secret(field) /\ HasNewline(tvalue) => Warned

\* C20 amended: TTY_Writer warns the user before it writes a secret with a
\* line break in it, and warns of nothing else; ClipboardWriter emits no
\* warning at all.
C20_OnlyTTYWarns ==
    /\ Disclosing /\ writer = "tty" /\ is_secret(field) /\ HasNewline(tvalue)
           => Warned
    /\ Warned => writer = "tty" /\ is_secret(field) /\ HasNewline(tvalue)

C20_Witness ==
    /\ wpc = "tty_write"
    /\ is_secret(field)
    /\ HasNewline(tvalue)
    /\ Warned
    /\ screen = <<<<>>>>

\* ------------------------------------- channel selection and scripts (C21..C30)
\* the value was handed to the clipboard command
ValuePlaced == \E i \in DOMAIN xsel : xsel[i][2] = "-i"

\* C21: when ClipboardWriter.display_field could not place the value on
\* the clipboard, it ends with an error: no countdown or value has been
\* written to the terminal, no clear command was issued and no key typed.
C21_FailedSetAborts ==
    Over("clipboard") /\ ~ValuePlaced
        => /\ result \notin {"none", "returned"}
           /\ screen = <<<<>>>>
           /\ xsel = <<>>
           /\ keys = <<>>

C21_Witness ==
    /\ Over("clipboard")
    /\ ~ValuePlaced
    /\ is_secret(field)
    /\ result = "NameError"
    /\ logged = <<ClipLog(secret, field)>>

\* C22: get_writer returns StdoutWriter only when stdout is asked for,
\* display is true and clipboard is false; with its default arguments it
\* returns TTY_Writer, and with display true and both clipboard and
\* stdout asked for it returns ClipboardWriter.
C22_StdoutNeverByDefault ==
    selection.called
        => /\ selection.chosen = "StdoutWriter"
                  <=> /\ selection.stdout
                      /\ selection.display
                      /\ ~selection.clipboard
           /\ selection.display /\ ~selection.clipboard /\ ~selection.stdout
                  => selection.chosen = "TTY_Writer"
           /\ selection.display /\ selection.clipboard /\ selection.stdout
                  => selection.chosen = "ClipboardWriter"

C22_Witness ==
    /\ selection.called
    /\ selection.display
    /\ selection.clipboard
    /\ selection.stdout
    /\ selection.chosen = "ClipboardWriter"
    /\ writer = "get_writer"

tab_command == <<"{", "t", "a", "b", "}">>

return_command == <<"{", "r", "e", "t", "u", "r", "n", "}">>

RECURSIVE TabReturnChars(_)
\* the characters a script of {tab} and {return} commands stands for, with
\* a "?" where it holds anything else
TabReturnChars(s) ==
    IF s = <<>> THEN <<>>
    ELSE IF StartsWith(s, tab_command)
    THEN <<"\t">> \o TabReturnChars(SubSeq(s, 6, Len(s)))
    ELSE IF StartsWith(s, return_command)
    THEN <<"\n">> \o TabReturnChars(SubSeq(s, 9, Len(s)))
    ELSE <<"?">>

OnlyTabReturn(s) ==
    /\ s # <<>>
    /\ \A i \in DOMAIN TabReturnChars(ToLower(s)) :
           TabReturnChars(ToLower(s))[i] # "?"

\* C23: a script of {tab} and {return} commands only, once run, has sent
\* one Tab key per {tab} and one Return key per {return}, in the order of
\* the script and nothing else, and its transcript is the same sequence
\* of tab and newline characters.
C23_TabReturnOnly ==
    Over("keyboard") /\ result = "returned" /\ OnlyTabReturn(script)
        => LET chars == TabReturnChars(ToLower(script))
           IN  /\ keys = [i \in DOMAIN chars |->
                            IF chars[i] = "\t" THEN "Tab" ELSE "Return"]
               /\ Join(scrubbed) = chars
               /\ logged = <<KbLog(<<chars>>)>>
               /\ msgs = <<>>

C23_Witness ==
    /\ Over("keyboard")
    /\ result = "returned"
    /\ ToLower(script) = return_command \o tab_command \o tab_command
    /\ script # ToLower(script)
    /\ keys = <<"Return", "Tab", "Tab">>

\* the buffer with the value of the secret field replaced by its placeholder
Placeholders ==
    [i \in DOMAIN buffer |->
        IF buffer[i] = Strip(dedent(secret))
        THEN <<"<">> \o pin \o <<">">> ELSE buffer[i]]

\* C24 as stated: when run_script has run a script, its transcript is the
\* keystroke buffer, literal text included, with only the value of each
\* secret field replaced by its placeholder.
C24_TranscriptMirrorsBuffer ==
    Over("keyboard") /\ result = "returned"
        => Join(scrubbed) = Join(Placeholders)

\* run_script was not cut short by a Ctrl-C and is over
Ran == writer = "keyboard" /\ wpc = "end" /\ ~interrupted

SyntaxError ==
    \E i \in DOMAIN msgs : msgs[i][2] = "syntax error in keyboard script."

Typed(keysym) == \E i \in DOMAIN keys : keys[i] = keysym

\* the script holds a sleep command with a word for a number, or with two
Malformed(s) ==
    \/ Holds(s, <<"{", "s", "l", "e", "e", "p", " ", "a", "b", "c", "}">>)
    \/ Holds(s, <<"{", "s", "l", "e", "e", "p", " ", "1", " ", "2", "}">>)

\* C25 as stated: a script with a malformed sleep command makes run_script
\* fail with a script error, and nothing of that command or of what
\* follows it is typed.
C25_MalformedSleepFails ==
    Ran /\ Malformed(script)
        => /\ result = "terminated"
           /\ SyntaxError
           /\ ~Typed("braceleft")
           /\ ~Typed("Return")

\* C26 as stated: at {sleep 1} run_script types what is buffered, pauses,
\* records <sleep 1> in the transcript and goes on, so that the whole
\* script has been typed when it returns.
C26_SleepPausesAndGoesOn ==
    Ran /\ Holds(script, <<"{", "s", "l", "e", "e", "p", " ", "1", "}">>)
        => /\ result = "returned"
           /\ \E i \in DOMAIN scrubbed :
                  scrubbed[i] = <<"<", "s", "l", "e", "e", "p", " ", "1", ">">>
           /\ keys = Keysyms(get_field(secret, id) \o Strip(dedent(secret)))

\* C27 as stated: a segment between braces is always a command and is
\* never typed as text; {q.0} is resolved and its value typed.
C27_BracesAreCommands ==
    Ran /\ result = "returned"
        => /\ ~Typed("braceleft")
           /\ ~Typed("braceright")
           /\ Holds(ToLower(script), <<"{">> \o answer \o <<"}">>)
                  => Holds(Join(buffer), get_field(secret, answer))

\* a character autotype() has no key symbol for
Unknown(c) == c \notin ascii_letters /\ c \notin DOMAIN KEYSYMS

\* the errors autotype() has reported
KeysymReports == SelectSeq(msgs, LAMBDA m : m[2] = "cannot map to keysym, unknown")

\* C28: when the buffer holds characters that are neither letters nor
\* keys of the symbol table, autotype reports each of them, leaves them
\* out and sends the key symbols of all the others in their order;
\* run_script returns all the same.
C28_UnknownCharacterSkipped ==
    Ran /\ terms = <<>> /\ result # "none"
        => LET typed == Join(buffer)
               known == SelectSeq(typed, LAMBDA c : ~Unknown(c))
           IN  /\ result = "returned"
               /\ Len(keys) = Len(known)
               /\ \A i \in DOMAIN known :
                      keys[i] = IF known[i] \in ascii_letters
                                THEN known[i] ELSE KEYSYMS[known[i]]
               /\ [i \in DOMAIN KeysymReports |-> KeysymReports[i][3]]
                      = SelectSeq(typed, Unknown)

C28_Witness ==
    /\ Ran
    /\ result = "returned"
    /\ \E i \in DOMAIN Join(buffer) : Unknown(Join(buffer)[i])
    /\ keys = <<"m", "e", "Tab", "k", "z", "Return">>
    /\ Len(KeysymReports) = 1

\* a field reference of the script was not found
Unresolved ==
    writer = "keyboard" /\ \E i \in DOMAIN msgs : msgs[i][2] = "not found"

\* C29: when a field reference of a script fails to resolve, run_script
\* ends there: no key of the script has been typed, the text and fields
\* before the reference included, and no transcript is logged.
C29_UnresolvedTypesNothing ==
    Unresolved
        => /\ result = "terminated"
           /\ wpc = "end"
           /\ keys = <<>>
           /\ logged = <<>>

C29_Witness ==
    /\ Unresolved
    /\ buffer = <<<<"h", "i">>>>
    /\ keys = <<>>
    /\ result = "terminated"

\* C30 as stated: the script is split into terms first, the initial
\* delay comes next, and no key is typed before the delay is over.
C30_TokenizedBeforeDelay ==
    wpc = "kb_delay" => terms = RegexSplit(script) /\ keys = <<>>

\* C30 amended: the initial delay comes first and the script is split
\* into terms only when it is over; no key is typed before the delay is
\* over, and none at all when a Ctrl-C ends it.
C30_DelayBeforeTokenizing ==
    /\ wpc = "kb_delay" => terms = <<>> /\ buffer = <<>> /\ keys = <<>>
    /\ writer = "keyboard" /\ interrupted => terms = <<>> /\ keys = <<>>
    /\ writer = "keyboard" /\ wpc \in {"kb_loop", "end"} /\ ~interrupted
           => \E n \in 0..Len(RegexSplit(script)) :
                  terms = SubSeq(RegexSplit(script), n + 1,
                                 Len(RegexSplit(script)))

C30_Witness ==
    /\ wpc = "kb_delay"
    /\ script # DefaultScript
    /\ RegexSplit(script) # <<script>>
    /\ terms = <<>>

\* -------------------------------------------- the commands (C31..C40)
\* C31 as stated: the credentials command presents its fields one after
\* the other: it ends normally, each field was handed to the writer, and
\* no secret is left on the terminal when the next one is written or the
\* command ends.
C31_SecretsOneAtATime ==
    writer = "credentials" /\ wpc = "end"
        => /\ result = "returned"
           /\ \E i \in DOMAIN logged : logged[i] = TTYLog(secret, pin)
           /\ screen[Len(screen)] = <<>>
           /\ ~ShowsSecret

\* the command line was read and run() went on
Parsed == cpc \in {"generator", "loaded", "archive", "done"} /\ cresult # "usage"

\* C32 as stated: the program invoked as vc is dispatched to the Value
\* command with the clipboard selected, and the arguments that follow are
\* taken as the account and the field.
C32_VcIsValueClipboard ==
    invoked.name = "vc" /\ cpc \in {"generator", "loaded", "done"}
        => /\ command_class = "Value"
           /\ cmdline.ok
           /\ cmdline.clipboard \/ cmdline.word = "vc"
           /\ Len(invoked.args) >= 1 => cmdline.account = invoked.args[1]
           /\ Len(invoked.args) >= 2 => cmdline.field = invoked.args[2]

\* the value command was run on discovery with a title and is over
TitleDiscovery ==
    /\ command_class = "Value"
    /\ cpc = "done"
    /\ cmdline.ok
    /\ cmdline.account = None
    /\ cmdline.title # None
    /\ cresult # "terminated"

\* C33 as stated: the value command run on discovery with a title sends
\* no key to the keyboard and writes the scrubbed transcript to the
\* standard output.
C33_TitleScrubsToStdout ==
    TitleDiscovery
        => /\ cresult = "returned"
           /\ keys = <<>>
           /\ screen # <<<<>>>>

\* the accounts file that defines the account
FileOf(a) == CHOOSE f \in FileNames : a \in DOMAIN Contents[f].accounts

\* the master the account defines itself, if any
Own(a) == Contents[FileOf(a)].accounts[a]

\* C34 as stated: when the accounts files are loaded, an account that
\* defines no master of its own has the master_password of the file that
\* defines it.
C34_MasterOfOwnFile ==
    cpc = "loaded"
        => \A a \in defined :
               Own(a) = Unset => master[a] = Contents[FileOf(a)].master_password

\* a master an account has stays as it is while the files are loaded
KeepsMasters ==
    cpc = "generator"
        => \A a \in AccountNames : master[a] # Unset => master'[a] = master[a]

\* the accounts whose master does not depend on the order of the files
Settled ==
    cpc = "loaded"
        => \A a \in defined :
               /\ Own(a) # Unset => master[a] = Own(a)
               /\ Own(a) = Unset /\ Contents[FileOf(a)].master_password # Unset
                      => master[a] = Contents[FileOf(a)].master_password

\* C40: add_missing_master never overwrites a master: an account that
\* has one, its own or one given by an earlier call, keeps it through
\* every later call; so whatever the order of the accounts files, an
\* account with a master of its own ends with it and an account of a file
\* with a master_password ends with that one.
C40_MasterNeverOverwritten == [][KeepsMasters]_vars /\ []Settled

C40_Witness ==
    /\ cpc = "loaded"
    /\ accounts_files = <<"personal.gpg", "public.gpg", "work.gpg">>
    /\ master = [bank |-> "m1", mail |-> "own", wiki |-> "m2", vpn |-> "m2"]

\* the archive command got past the saving of the existing archive, or
\* gave up in it, in a run that began with an archive and with the
\* previous_archive_file setting given
ArchiveSaved ==
    /\ command_class = "Archive"
    /\ cpc \in {"generator", "loaded", "done"}
    /\ cmdline.ok
    /\ previous_setting
    /\ archive0 # Absent

AddSaved ==
    \/ pc \in {"add_run", "add_query", "add_remove"}
    \/ cmd = "add" /\ pc = "done" /\ outcome = "committed"

\* C37: what Add.run saves to the accounts file is the content captured
\* before the loop (the file as it was backed up, without the line breaks
\* at its ends), three line breaks, and the one candidate made of what
\* the editor session left; the captured content is a prefix of it and
\* nothing of a candidate saved in an earlier turn is in it.
C37_SavedIsOriginalPlusOne ==
    AddSaved
        => /\ orig_accounts_code = StripNl(pre)
           /\ acct = Combined(orig_accounts_code, PostProcess(entered))
           /\ SubSeq(acct, 1, Len(orig_accounts_code)) = orig_accounts_code
           /\ Len(acct) = Len(orig_accounts_code) + 2 + Len(PostProcess(entered))

C37_Witness ==
    /\ cmd = "add"
    /\ pc = "done"
    /\ outcome = "committed"
    /\ retries >= 1
    /\ \E i \in DOMAIN out : out[i] = "Try again?"
    /\ acct = Combined(StripNl(pre), PostProcess(entered))
    /\ \A i \in DOMAIN acct : acct[i] # "class Broken(Account:"

\* a request that is turned down leaves the files and the editor alone
RejectedStep ==
    pc = "idle" /\ cmd' = "add" /\ ~request'.accepted
        => /\ acct' = acct
           /\ backups' = backups
           /\ tmps' = tmps
           /\ seed' = seed
           /\ recipients' = recipients
           /\ exc' = "PasswordError"
           /\ pc' = "done"

\* Add.run is at work on the one file and the template it settled on
Proceeds ==
    cmd = "add" /\ (pc \notin {"idle", "done"} \/ outcome # "error")
        => /\ request.accepted
           /\ request.filename = AccountsPath
           /\ request.template_name \in DOMAIN account_templates

\* C39: a request of Add.run whose --file prefix fits no accounts file or
\* several, or whose template is not known, ends with a PasswordError
\* and no backup, no temp file, no editor session and no write of the
\* accounts file; Add.run goes on only with one file and a known template.
C39_BadRequestNoSideEffect == [][RejectedStep]_vars /\ []Proceeds

C39_Witness ==
    /\ cmd = "add"
    /\ pc = "done"
    /\ request = [accepted |-> FALSE, filename |-> AccountsPath,
                  template_name |-> "nonesuch"]
    /\ exc = "PasswordError"
    /\ backups = {}
    /\ tmps[run] = NoFile

\* C38: the accounts file stays encrypted for those it was encrypted for:
\* every save of Add.run, in the first turn and in every later one, is
\* for the gpg_ids read from the file before the backup, whatever the
\* gpg_ids of the settings, which the temp file is saved for.
C38_RecipientsKept ==
    /\ recipients = Recipients(declared)
    /\ AddSaved => gpg_ids = declared /\ recipients = Recipients(gpg_ids)
    /\ pc \in {"add_editor", "add_check", "add_save", "add_run", "add_query"}
           => tmp_recipients = Recipients(SettingIds)

C38_Witness ==
    /\ cmd = "add"
    /\ pc = "done"
    /\ outcome = "committed"
    /\ retries >= 1
    /\ gpg_ids = <<"alice", "bob">>
    /\ recipients = {"alice", "bob"}
    /\ recipients # Recipients(SettingIds)

\* ------------------------------------- add and edit running side by side
\* what the user of invocation p may leave behind when the editor session
\* ends: for add in the temp file, for edit in the accounts file the editor
\* was opened on; mark is the line by which the entry is told from others
ConEdits(p, kind, text) ==
    IF kind = "add"
    THEN { [new |-> template, mark |-> None, writes |-> FALSE],
           IF p = 1
           THEN [new |-> <<"# Avendesora: fill in the fields",
                           "class Shop(Account):", "    pin = <<1234>>", "">>,
                 mark |-> "class Shop(Account):", writes |-> TRUE]
           ELSE [new |-> <<"class Club(Account):", "">>,
                 mark |-> "class Club(Account):", writes |-> TRUE],
           [new |-> <<"class Broken(Account:", "">>,
            mark |-> None, writes |-> TRUE] }
    ELSE { [new |-> text, mark |-> None, writes |-> FALSE],
           [new |-> Cat(StripNl(SelectSeq(text, LAMBDA l : l \notin BadLines)),
                        <<"", "    url = 'bank.com'", "">>),
            mark |-> "    url = 'bank.com'", writes |-> TRUE],
           [new |-> Cat(StripNl(SelectSeq(text, LAMBDA l : l \notin BadLines)),
                        <<"", "class Broken(Account:", "">>),
            mark |-> None, writes |-> TRUE] }

\* Add.run: the accounts file is run and its code kept in a local;
\* Edit.run: the generator runs the accounts files.  A file that does not
\* run ends the command with the PasswordError.  Neither looks for another
\* invocation
ConBegin(p, kind) ==
    /\ procs[p].pc \in {"idle", "done"}
    /\ run < MaxInvocations
    /\ run' = run + 1
    /\ procs' = [procs EXCEPT ![p] =
           IF Parses(acct)
           THEN [kind |-> kind, pc |-> "backup",
                 orig_accounts_code |->
                     IF kind = "add" THEN StripNl(acct) ELSE NoFile,
                 buffer |-> NoFile, mark |-> None, outcome |-> "none"]
           ELSE [@ EXCEPT !.kind = kind, !.pc = "done",
                          !.mark = None, !.outcome = "error"]]
    /\ UNCHANGED <<acct, backups>>

\* backup('.saved'): the one name both invocations copy the file to; Add.run
\* then saves the template into a temp file of its own
ConBackup(p) ==
    /\ procs[p].pc = "backup"
    /\ backups' = backup(AccountsPath, ".saved", acct)
    /\ procs' = [procs EXCEPT ![p].pc = "editor"]
    /\ UNCHANGED <<acct, run>>

\* Add.run appending to the file as it is when the save is made
ConAddEditor_Rereads(p) ==
    /\ procs[p].pc = "editor"
    /\ procs[p].kind = "add"
    /\ \E e \in ConEdits(p, "add", template) :
          IF IsBlank(e.new) \/ e.new = template
          THEN /\ procs' = [procs EXCEPT ![p].pc = "done",
                                         ![p].outcome = "unchanged"]
               /\ UNCHANGED acct
          ELSE /\ acct' = Combined(StripNl(acct),
                                   PostProcess(e.new))
               /\ procs' = [procs EXCEPT ![p].pc = "run",
                                         ![p].mark = e.mark]
    /\ UNCHANGED <<backups, run>>

\* Add.run: the editor session on the temp file, and the save of the code
\* read at the start with the new account appended
ConAddEditor(p) ==
    /\ procs[p].pc = "editor"
    /\ procs[p].kind = "add"
    /\ \E e \in ConEdits(p, "add", template) :
          IF IsBlank(e.new) \/ e.new = template
          THEN /\ procs' = [procs EXCEPT ![p].pc = "done",
                                         ![p].outcome = "unchanged"]
               /\ UNCHANGED acct
          ELSE /\ acct' = Combined(procs[p].orig_accounts_code,
                                   PostProcess(e.new))
               /\ procs' = [procs EXCEPT ![p].pc = "run",
                                         ![p].mark = e.mark]
    /\ UNCHANGED <<backups, run>>

\* Edit.run: the editor reads the accounts file into its buffer
ConEditOpen(p) ==
    /\ procs[p].pc = "editor"
    /\ procs[p].kind = "edit"
    /\ procs' = [procs EXCEPT ![p].pc = "editing", ![p].buffer = acct]
    /\ UNCHANGED <<acct, backups, run>>

\* Edit.run: the editor writes its buffer over the accounts file, or is
\* left without writing
ConEditWrite(p) ==
    /\ procs[p].pc = "editing"
    /\ \E e \in ConEdits(p, "edit", procs[p].buffer) :
          /\ acct' = IF e.writes THEN e.new ELSE acct
          /\ procs' = [procs EXCEPT ![p].pc = "run", ![p].buffer = NoFile,
                                    ![p].mark = e.mark]
    /\ UNCHANGED <<backups, run>>

\* the accounts file is run: the command is over when it runs; when it does
\* not, the user is asked and either gets the editor again or gives up
ConRun(p) ==
    /\ procs[p].pc = "run"
    /\ \/ /\ Parses(acct)
          /\ procs' = [procs EXCEPT ![p].pc = "done",
                                    ![p].outcome = "committed"]
       \/ /\ ~Parses(acct)
          /\ procs' = [procs EXCEPT ![p].pc = "editor"]
       \/ /\ ~Parses(acct)
          /\ procs' = [procs EXCEPT ![p].pc = "except"]
    /\ UNCHANGED <<acct, backups, run>>

\* restore(): the backup copy is written over the accounts file
ConExcept(p) ==
    /\ procs[p].pc = "except"
    /\ acct' = restore(AccountsPath)
    /\ procs' = [procs EXCEPT ![p].pc = "done",
                              ![p].outcome = "rolled back"]
    /\ UNCHANGED <<backups, run>>

\* the entry an invocation wrote is in the text
Has(text, mark) == \E i \in 1..Len(text) : text[i] = mark

\* the invocations whose write was accepted
Accepted(ps) ==
    {q \in Procs : ps[q].outcome = "committed" /\ ps[q].mark # None}

\* a step of invocation p, and what it does to the accounts written so far:
\* a rollback, a rollback that takes an accepted entry of another invocation
\* out of the file, and two accepted writes of which the file lacks one
\* though nothing was rolled back
Noted(p) ==
    /\ seen' = seen
          \cup (IF procs[p].pc = "except" THEN {"rollback"} ELSE {})
          \cup (IF /\ procs[p].pc = "except"
                   /\ \E q \in Accepted(procs) \ {p} :
                         /\ Has(acct, procs[q].mark)
                         /\ ~Has(acct', procs[q].mark)
                THEN {"erased"} ELSE {})
          \cup (IF /\ "rollback" \notin seen
                   /\ procs[p].pc # "except"
                   /\ Accepted(procs') = Procs
                   /\ \E q \in Procs : ~Has(acct', procs'[q].mark)
                THEN {"lost update"} ELSE {})
    /\ UNCHANGED <<tmps, pc, cmd, retries, exc, orig_accounts_code,
                   pre, entered, out, outcome, seed>>
    /\ UNCHANGED <<xvars, wvars, selection, cvars, gvars, avars>>

ConcurrentInit ==
    /\ WriterOff
    /\ EditInit
    /\ acct = <<"class Bank(Account):", "", "">>
    /\ selection = Unselected
    /\ CommandOff
    /\ declared = NoIds
    /\ IdsOff

ConcurrentNext ==
    \/ \E p \in Procs :
          \E kind \in (IF p = 1 THEN {"add"} ELSE {"add", "edit"}) :
             ConBegin(p, kind) /\ Noted(p)
    \/ \E p \in Procs : ConBackup(p) /\ Noted(p)
    \/ \E p \in Procs : ConAddEditor(p) /\ Noted(p)
    \/ \E p \in Procs : ConEditOpen(p) /\ Noted(p)
    \/ \E p \in Procs : ConEditWrite(p) /\ Noted(p)
    \/ \E p \in Procs : ConRun(p) /\ Noted(p)
    \/ \E p \in Procs : ConExcept(p) /\ Noted(p)

SpecConcurrent == ConcurrentInit /\ [][ConcurrentNext]_vars

\* C36: add and edit take no lock on the accounts file, so the steps of two
\* invocations interleave freely.  What an invocation writes is made from
\* what it read itself: an entry of the other invocation is in the file
\* after the write only if it was in the file when the writer read it; and a
\* rollback leaves the file as the one backup copy has it, which either
\* invocation may have taken.  So an accepted write can go missing under
\* another accepted write, and a rollback can take an accepted entry of the
\* other invocation out of the file
Read(p) ==
    IF procs[p].kind = "add"
    THEN procs[p].orig_accounts_code
    ELSE procs[p].buffer

Writes(p) ==
    /\ procs[p].pc \in {"editor", "editing"}
    /\ procs'[p].pc = "run"
    /\ acct' # acct

RollsBack(p) == procs[p].pc = "except" /\ procs'[p].pc = "done"

FromOwnRead(p) ==
    /\ \/ ~Writes(p)
       \/ \A q \in Procs \ {p} :
             \/ ~Has(acct', procs[q].mark)
             \/ Has(Read(p), procs[q].mark)
    /\ \/ ~RollsBack(p)
       \/ /\ Cardinality(BackupCopies(AccountsPath)) = 1
          /\ acct' = SavedText(AccountsPath)

EveryWrite == \A p \in Procs : FromOwnRead(p)

C36_NotSerialised == [][EveryWrite]_vars

C36_Witness == seen = {"rollback", "erased", "lost update"}

====
